---------------------------- MODULE Spec2Model ----------------------------
(***************************************************************************)
(* A model of the binary decoding pipeline of infinitier (core crate):     *)
(*   - the Reader of datasource.rs over a seekable byte source,            *)
(*   - the block-zlib adapter BifcCompressedReader of bif/bifc_reader.rs,  *)
(*   - the BAM v1 / BAMC parsers and the BAM dispatcher,                   *)
(*   - the BIFF / BIF / BIFC archive parsers and the BIF dispatcher.       *)
(*                                                                         *)
(* Bytes are integers 0..255, a file is a sequence of bytes, a cursor is a *)
(* 0-based offset (the byte at offset p of d is d[p + 1]).  A decoded      *)
(* string is the sequence of its Unicode code points.                      *)
(*                                                                         *)
(* Each component has its own variables and its own specification          *)
(* (SpecReader, SpecBifc, SpecBam, ...); a specification leaves the        *)
(* variables of the other components at their idle value.                  *)
(***************************************************************************)
EXTENDS Integers, Sequences, FiniteSets, TLC

VARIABLES
    \* Reader (datasource.rs): the byte source, the cursor, the last operation
    rdData, rdPos, rdRes,
    \* BifcCompressedReader (bif/bifc_reader.rs)
    blocks, nextBlock, buffer, offset, delivered, lastRead,
    \* BAM family: the input and the outcome of each import route
    bamIn, bamOut,
    \* BIF family: the input and the outcome of each import route
    bifIn, bifOut,
    \* KEY catalog (key.rs): the installation and the outcome of the import
    keyIn, keyOut,
    \* CaseInsensitiveFS (fs.rs): the snapshot and the last query
    fsPaths, fsOut,
    \* BAM v2 frame compositing (bam/bam_v2.rs): the frame and the outcome
    imgIn, imgOut,
    \* 2DA rows (two_da.rs): the line and the parsed row
    rowIn, rowOut,
    \* Type registries (key.rs): a 16-bit code and its conversions
    tyIn, tyOut

vars == <<rdData, rdPos, rdRes, blocks, nextBlock, buffer, offset, delivered,
          lastRead, bamIn, bamOut, bifIn, bifOut, keyIn, keyOut, fsPaths,
          fsOut, imgIn, imgOut, rowIn, rowOut, tyIn, tyOut>>

rdVars == <<rdData, rdPos, rdRes>>
bifcVars == <<blocks, nextBlock, buffer, offset, delivered, lastRead>>
bamVars == <<bamIn, bamOut>>
bifVars == <<bifIn, bifOut>>
keyVars == <<keyIn, keyOut>>
fsVars == <<fsPaths, fsOut>>
imgVars == <<imgIn, imgOut>>
rowVars == <<rowIn, rowOut>>
tyVars == <<tyIn, tyOut>>

\* The idle value of a component that a specification does not run.
Idle == "idle"


---------------------------------------------------------------------------
(* Sequences and little-endian integers *)

Min(a, b) == IF a <= b THEN a ELSE b
Max(a, b) == IF a >= b THEN a ELSE b

\* All sequences over S of length lo..hi.
SeqsOf(S, lo, hi) == UNION {[1..n -> S] : n \in lo..hi}

\* n copies of x.
Repeat(x, n) == [i \in 1..n |-> x]

\* The concatenation of the sequences of ss, in order.
RECURSIVE Flatten(_)
Flatten(ss) == IF ss = <<>> THEN <<>> ELSE Head(ss) \o Flatten(Tail(ss))

IsPrefix(s, t) == Len(s) <= Len(t) /\ s = SubSeq(t, 1, Len(s))

\* u8::from_le_bytes on the 1 byte b.
u8_from_le_bytes(b) == b[1]

\* u16::from_le_bytes on the 2 bytes b.
u16_from_le_bytes(b) == b[1] + 256 * b[2]

\* Mutant of u32::from_le_bytes: the bytes taken in big-endian order.
u32_from_be_bytes(b) == [lo |-> b[4] + 256 * b[3], hi |-> b[2] + 256 * b[1]]

\* u32::from_le_bytes on the 4 bytes b.  The checker's integers are 32-bit
\* signed, so a u32 is kept as its two 16-bit halves: its value is
\* hi * 65536 + lo.
u32_from_le_bytes(b) == [lo |-> b[1] + 256 * b[2], hi |-> b[3] + 256 * b[4]]

\* i32::from_le_bytes: the same 32 bits in two's complement, as a number.
i32_from_le_bytes(b) ==
    LET u == u32_from_le_bytes(b)
    IN  (IF u.hi >= 32768 THEN u.hi - 65536 ELSE u.hi) * 65536 + u.lo

\* `v as u64` / `v as usize` of a u32 v, as a number (for v < 2^31, which is
\* every offset and count of the inputs explored here).
as_u64(v) == v.hi * 65536 + v.lo

\* The u32 with the value of the number n, 0 <= n < 2^31.
U32(n) == [lo |-> n % 65536, hi |-> n \div 65536]

RECURSIVE Pow256(_)
Pow256(n) == IF n = 0 THEN 1 ELSE 256 * Pow256(n - 1)

\* The n little-endian bytes of the number v (the layout the readers decode).
to_le_bytes(v, n) == [i \in 1..n |-> (v \div Pow256(i - 1)) % 256]

\* The 4 little-endian bytes of the u32 v.
u32_to_le_bytes(v) == to_le_bytes(v.lo, 2) \o to_le_bytes(v.hi, 2)

---------------------------------------------------------------------------
(* Reader: datasource.rs (the same code is in io.rs) *)

\* WINDOWS_1252 of encoding_rs, bytes 0x80..0x9F; every other byte decodes
\* to the code point of the same number.  No byte is an error.
Cp1252High ==
    <<8364, 129, 8218, 402, 8222, 8230, 8224, 8225, 710, 8240, 352, 8249, 338,
      141, 381, 143, 144, 8216, 8217, 8220, 8221, 8226, 8211, 8212, 732, 8482,
      353, 8250, 339, 157, 382, 376>>

decode(bytes) ==
    [i \in 1..Len(bytes) |->
        IF bytes[i] >= 128 /\ bytes[i] <= 159
        THEN Cp1252High[bytes[i] - 127] ELSE bytes[i]]

\* str::trim_end_matches(char::from(0))
RECURSIVE trim_end_matches_nul(_)
trim_end_matches_nul(s) ==
    IF s # <<>> /\ s[Len(s)] = 0
    THEN trim_end_matches_nul(SubSeq(s, 1, Len(s) - 1)) ELSE s

\* What a failed operation returns in place of a value (an Err carries none).
NoValue == <<>>

\* The bytes a memory source holds from offset p on (none past its end).
Remaining(d, p) == IF p >= Len(d) THEN 0 ELSE Len(d) - p

\* Mutant of take_read_to_end: a read that insists on all `size` bytes.
take_read_to_end_strict(d, p, size) ==
    IF size <= Remaining(d, p)
    THEN [ok |-> TRUE, bytes |-> SubSeq(d, p + 1, p + size), pos |-> p + size]
    ELSE [ok |-> FALSE, bytes |-> <<>>, pos |-> Max(p, Len(d))]

\* (&mut self.data).take(size).read_to_end(&mut buf): the next `size` bytes,
\* or as many as are left; never an error on a memory source.
take_read_to_end(d, p, size) ==
    LET k == Min(size, Remaining(d, p))
    IN  [ok |-> TRUE, bytes |-> SubSeq(d, p + 1, p + k), pos |-> p + k]

\* Reader::read_string: value, new cursor.
read_string(d, p, size) ==
    LET Decoded(chunk) ==
            IF chunk.ok
            THEN [ok |-> TRUE, val |-> trim_end_matches_nul(decode(chunk.bytes)),
                  err |-> "", pos |-> chunk.pos]
            ELSE [ok |-> FALSE, val |-> NoValue, err |-> "UnexpectedEof",
                  pos |-> chunk.pos]
    IN  Decoded(take_read_to_end(d, p, size))

\* Mutant of read_exact: the cursor is left one byte short.
read_exact_short(d, p, n) ==
    IF n <= Remaining(d, p)
    THEN [ok |-> TRUE, val |-> SubSeq(d, p + 1, p + n), err |-> "",
          pos |-> p + n - 1]
    ELSE [ok |-> FALSE, val |-> NoValue, err |-> "UnexpectedEof", pos |-> Len(d)]

\* Reader::read_exact::<N> on a Cursor: N bytes and the cursor N further, or
\* UnexpectedEof (Cursor::read_exact then leaves the cursor at the end).
read_exact(d, p, n) ==
    IF n <= Remaining(d, p)
    THEN [ok |-> TRUE, val |-> SubSeq(d, p + 1, p + n), err |-> "", pos |-> p + n]
    ELSE [ok |-> FALSE, val |-> NoValue, err |-> "UnexpectedEof", pos |-> Len(d)]

\* Applies f to the value of a successful read.
MapVal(r, f(_)) == IF r.ok THEN [r EXCEPT !.val = f(r.val)] ELSE r

read_u8(d, p) == MapVal(read_exact(d, p, 1), u8_from_le_bytes)
read_u16(d, p) == MapVal(read_exact(d, p, 2), u16_from_le_bytes)
read_u32(d, p) == MapVal(read_exact(d, p, 4), u32_from_le_bytes)
read_i32(d, p) == MapVal(read_exact(d, p, 4), i32_from_le_bytes)

\* Mutant of set_position: a seek relative to the current cursor.
set_position_relative(p, pos) == p + pos

\* Reader::set_position: seek(SeekFrom::Start(pos)); `p` is the cursor before.
set_position(p, pos) == pos

\* DataSource::reader: the cursor a new reader starts at; `base` is 0 for
\* DataSource::Full and the offset of DataSource::Embedded.
reader(base) == base

---------------------------------------------------------------------------
(* SpecReader: a Reader over a memory source, driven by any sequence of its
   operations.  rdRes records the last operation: its name, the width n it
   claims to read, the cursor before it (pre), the offset of an _at variant
   (at, -1 otherwise) and what it returned. *)

\* Bound: the longest byte source.
MaxRdLen == 4
\* Bound: the widest read_exact::<N> and read_string(n) request.
MaxReq == 3

\* The bytes of the sources: NUL (0x00) and 0x80, which WINDOWS_1252 maps
\* away from itself and which is the sign bit of a 32-bit integer.
RdBytes == {0, 128}

RdNone ==
    [op |-> "none", ok |-> TRUE, val |-> NoValue, err |-> "", pre |-> 0,
     n |-> 0, at |-> -1]

RdInit ==
    /\ rdData \in SeqsOf(RdBytes, 0, MaxRdLen)
    /\ \E base \in 0..1 : rdPos = reader(base)
    /\ rdRes = RdNone
    /\ blocks = <<>> /\ nextBlock = 0 /\ buffer = Idle
    /\ offset = 0 /\ delivered = <<>> /\ lastRead = Idle
    /\ bamIn = Idle /\ bamOut = Idle
    /\ bifIn = Idle /\ bifOut = Idle
    /\ keyIn = Idle /\ keyOut = Idle /\ fsPaths = Idle /\ fsOut = Idle
    /\ imgIn = Idle /\ imgOut = Idle /\ rowIn = Idle /\ rowOut = Idle
    /\ tyIn = Idle /\ tyOut = Idle

\* What a Reader method leaves behind: r is what the operator returned.
RdDone(op, n, at, r) ==
    [op |-> op, ok |-> r.ok, val |-> r.val, err |-> r.err, pre |-> rdPos,
     n |-> n, at |-> at]

ReadU16 ==
    /\ rdPos' = read_u16(rdData, rdPos).pos
    /\ rdRes' = RdDone("read_u16", 2, -1, read_u16(rdData, rdPos))
    /\ UNCHANGED <<rdData, bifcVars, bamVars, bifVars,
                 keyVars, fsVars, imgVars, rowVars, tyVars>>

ReadU32 ==
    /\ rdPos' = read_u32(rdData, rdPos).pos
    /\ rdRes' = RdDone("read_u32", 4, -1, read_u32(rdData, rdPos))
    /\ UNCHANGED <<rdData, bifcVars, bamVars, bifVars,
                 keyVars, fsVars, imgVars, rowVars, tyVars>>

ReadI32 ==
    /\ rdPos' = read_i32(rdData, rdPos).pos
    /\ rdRes' = RdDone("read_i32", 4, -1, read_i32(rdData, rdPos))
    /\ UNCHANGED <<rdData, bifcVars, bamVars, bifVars,
                 keyVars, fsVars, imgVars, rowVars, tyVars>>

ReadExact ==
    /\ \E n \in 1..MaxReq :
        /\ rdPos' = read_exact(rdData, rdPos, n).pos
        /\ rdRes' = RdDone("read_exact", n, -1, read_exact(rdData, rdPos, n))
    /\ UNCHANGED <<rdData, bifcVars, bamVars, bifVars,
                 keyVars, fsVars, imgVars, rowVars, tyVars>>

ReadString ==
    /\ \E n \in 0..MaxReq :
        /\ rdPos' = read_string(rdData, rdPos, n).pos
        /\ rdRes' = RdDone("read_string", n, -1, read_string(rdData, rdPos, n))
    /\ UNCHANGED <<rdData, bifcVars, bamVars, bifVars,
                 keyVars, fsVars, imgVars, rowVars, tyVars>>

\* The _at variants: self.data.seek(SeekFrom::Start(offset))?; self.read_x()
ReadU16At ==
    /\ \E at \in 0..MaxRdLen :
        LET r == read_u16(rdData, set_position(rdPos, at))
        IN  rdPos' = r.pos /\ rdRes' = RdDone("read_u16_at", 2, at, r)
    /\ UNCHANGED <<rdData, bifcVars, bamVars, bifVars,
                 keyVars, fsVars, imgVars, rowVars, tyVars>>

ReadU32At ==
    /\ \E at \in 0..MaxRdLen :
        LET r == read_u32(rdData, set_position(rdPos, at))
        IN  rdPos' = r.pos /\ rdRes' = RdDone("read_u32_at", 4, at, r)
    /\ UNCHANGED <<rdData, bifcVars, bamVars, bifVars,
                 keyVars, fsVars, imgVars, rowVars, tyVars>>

ReadI32At ==
    /\ \E at \in 0..MaxRdLen :
        LET r == read_i32(rdData, set_position(rdPos, at))
        IN  rdPos' = r.pos /\ rdRes' = RdDone("read_i32_at", 4, at, r)
    /\ UNCHANGED <<rdData, bifcVars, bamVars, bifVars,
                 keyVars, fsVars, imgVars, rowVars, tyVars>>

ReadStringAt ==
    /\ \E at \in 0..MaxRdLen, n \in 0..MaxReq :
        LET r == read_string(rdData, set_position(rdPos, at), n)
        IN  rdPos' = r.pos /\ rdRes' = RdDone("read_string_at", n, at, r)
    /\ UNCHANGED <<rdData, bifcVars, bamVars, bifVars,
                 keyVars, fsVars, imgVars, rowVars, tyVars>>

SetPosition ==
    /\ \E pos \in 0..(MaxRdLen + 1) :
        /\ rdPos' = set_position(rdPos, pos)
        /\ rdRes' = RdDone("set_position", 0, pos,
                           [ok |-> TRUE, val |-> NoValue, err |-> ""])
    /\ UNCHANGED <<rdData, bifcVars, bamVars, bifVars,
                 keyVars, fsVars, imgVars, rowVars, tyVars>>

RdNext ==
    \/ ReadU16 \/ ReadU32 \/ ReadI32 \/ ReadExact \/ ReadString
    \/ ReadU16At \/ ReadU32At \/ ReadI32At \/ ReadStringAt \/ SetPosition

SpecReader ==
    /\ RdInit
    /\ [][RdNext]_vars

\* Where the last operation started reading.
RdStart == IF rdRes.at >= 0 THEN rdRes.at ELSE rdRes.pre

FixedWidthOps == {"read_u16", "read_u32", "read_i32", "read_exact"}
FixedWidthAtOps == {"read_u16_at", "read_u32_at", "read_i32_at"}

(* C6: a successful fixed-width read of N bytes leaves the cursor N past
   where it was; a successful _at(offset) variant leaves it at offset + N
   whatever the cursor was before; a failed read returns an error and no
   value. *)
C6_FixedWidthAdvance ==
    /\ rdRes.op \in FixedWidthOps /\ rdRes.ok => rdPos = rdRes.pre + rdRes.n
    /\ rdRes.op \in FixedWidthAtOps /\ rdRes.ok => rdPos = rdRes.at + rdRes.n
    /\ rdRes.op \in FixedWidthOps \cup FixedWidthAtOps /\ ~rdRes.ok =>
            rdRes.val = NoValue /\ rdRes.err = "UnexpectedEof"

\* A read_u16_at that succeeded after seeking back from a later cursor.
C6_Witness ==
    rdRes.op = "read_u16_at" /\ rdRes.ok /\ rdRes.pre > rdRes.at + 2

(* C7: whenever read_string(n) returns a string the cursor has advanced by
   exactly n bytes and the string is the decoding of those n bytes without
   its trailing NULs, also when fewer than n bytes were left. *)
C7_ReadStringExact ==
    rdRes.op \in {"read_string", "read_string_at"} /\ rdRes.ok =>
        /\ rdPos = RdStart + rdRes.n
        /\ Len(rdRes.val) <= rdRes.n
        /\ RdStart + rdRes.n <= Len(rdData) =>
                rdRes.val = trim_end_matches_nul(
                    decode(SubSeq(rdData, RdStart + 1, RdStart + rdRes.n)))

---------------------------------------------------------------------------
(* Parsing helpers: sequences of Reader calls *)

\* Successive read_exact calls of the widths ws from cursor p: the byte
\* groups read and the cursor after the last one; the first failure ends it.
RECURSIVE read_fields(_, _, _)
read_fields(d, p, ws) ==
    IF ws = <<>> THEN [ok |-> TRUE, vals |-> <<>>, pos |-> p]
    ELSE LET Rest(r, rest) ==
                 [ok |-> rest.ok, vals |-> <<r.val>> \o rest.vals, pos |-> rest.pos]
             First(r) ==
                 IF ~r.ok THEN [ok |-> FALSE, vals |-> <<>>, pos |-> r.pos]
                 ELSE Rest(r, read_fields(d, r.pos, Tail(ws)))
         IN  First(read_exact(d, p, Head(ws)))

\* `count` records of the field widths ws read one after the other from p.
RECURSIVE read_table(_, _, _, _)
read_table(d, p, count, ws) ==
    IF count = 0 THEN [ok |-> TRUE, rows |-> <<>>, pos |-> p]
    ELSE LET Rest(r, rest) ==
                 [ok |-> rest.ok, rows |-> <<r.vals>> \o rest.rows, pos |-> rest.pos]
             First(r) ==
                 IF ~r.ok THEN [ok |-> FALSE, rows |-> <<>>, pos |-> r.pos]
                 ELSE Rest(r, read_table(d, r.pos, count - 1, ws))
         IN  First(read_fields(d, p, ws))

\* Mutant of Failed: an error whose message leaves out the value.
Failed_without_value(msg, arg) == [status |-> "err", msg |-> msg, arg |-> <<>>]

\* An import that returned Err(std::io::Error): `msg` is the text of the
\* message, `arg` the value formatted into it (a decoded string).
Failed(msg, arg) == [status |-> "err", msg |-> msg, arg |-> arg]
\* The Err of a failed read, passed on by `?`.
Eof == Failed("UnexpectedEof", <<>>)
\* An import that panicked (an index out of bounds, an arithmetic overflow
\* under overflow checks).
Panicked(why) == [status |-> "panic", why |-> why]
\* No import has run.
NotRun == [status |-> "none"]

---------------------------------------------------------------------------
(* BAM v1: resource/bam/bam_v1.rs, resource/bam/mod.rs *)

\* "BAM V1  ", "BAM V2  ", "BAMCV1  "
BAM_V1_SIGNATURE == <<66, 65, 77, 32, 86, 49, 32, 32>>
BAM_V2_SIGNATURE == <<66, 65, 77, 32, 86, 50, 32, 32>>
BAMC_SIGNATURE == <<66, 65, 77, 67, 86, 49, 32, 32>>

\* The palette loop of BamV1Parser::import from entry i on: the entries are
\* pushed on `acc`, ti is transparency_index.
RECURSIVE bam_palette_loop(_, _, _, _, _, _)
bam_palette_loop(d, p, i, palette_entries, ti, acc) ==
    IF i = palette_entries
    THEN [ok |-> TRUE, palette |-> acc, transparency_index |-> ti, pos |-> p]
    ELSE LET Entry(f) ==
                 IF ~f.ok
                 THEN [ok |-> FALSE, palette |-> acc, transparency_index |-> ti,
                       pos |-> f.pos]
                 ELSE LET b == f.vals[1][1]
                          g == f.vals[2][1]
                          r == f.vals[3][1]
                          alpha == IF f.vals[4][1] = 0 THEN 255 ELSE f.vals[4][1]
                          ti2 == IF ti = 0 /\ r = 0 /\ g = 255 /\ b = 0
                                 THEN i ELSE ti
                      IN  bam_palette_loop(d, f.pos, i + 1, palette_entries, ti2,
                              Append(acc, [r |-> r, g |-> g, b |-> b, alpha |-> alpha]))
         IN  Entry(read_fields(d, p, <<1, 1, 1, 1>>))

\* The palette block of BamV1Parser::import.  lookup_offset - palette_offset
\* is a u64 subtraction: below zero it panics under overflow checks and
\* wraps without them, which leaves 256 entries to read.
bam_palette(d, p, palette_offset, lookup_offset, overflow_checks) ==
    IF lookup_offset < palette_offset /\ overflow_checks
    THEN [status |-> "panic", why |-> "attempt to subtract with overflow"]
    ELSE LET palette_entries ==
                 IF lookup_offset < palette_offset THEN 256
                 ELSE Min(256, (lookup_offset - palette_offset) \div 4)
             Replaced(l) ==
                 IF ~l.ok THEN [status |-> "err"]
                 ELSE IF l.transparency_index >= Len(l.palette)
                 THEN [status |-> "panic", why |-> "index out of bounds"]
                 ELSE [status |-> "ok", pos |-> l.pos,
                       transparency_index |-> l.transparency_index,
                       palette |-> [l.palette EXCEPT ![l.transparency_index + 1] =
                                       [r |-> 0, g |-> 255, b |-> 0, alpha |-> 0]]]
         IN  Replaced(bam_palette_loop(d, set_position(p, palette_offset), 0,
                                       palette_entries, 0, <<>>))

\* bam_pixels with the marker honoured in every frame, whatever bit 31 of
\* data_bits says.
RECURSIVE bam_pixels_always_rle(_, _, _, _, _, _)
bam_pixels_always_rle(d, p, size, compressed, rle, acc) ==
    IF Len(acc) >= size THEN [ok |-> TRUE, pixels |-> acc, pos |-> p]
    ELSE LET Run(px, cnt) ==
                 IF ~cnt.ok THEN [ok |-> FALSE, pixels |-> acc, pos |-> cnt.pos]
                 ELSE bam_pixels_always_rle(d, cnt.pos, size, compressed, rle,
                                 acc \o Repeat(px.val, cnt.val + 1))
             Pixel(px) ==
                 IF ~px.ok THEN [ok |-> FALSE, pixels |-> acc, pos |-> px.pos]
                 ELSE IF px.val = rle
                 THEN Run(px, read_u8(d, px.pos))
                 ELSE bam_pixels_always_rle(d, px.pos, size, compressed, rle,
                                 Append(acc, px.val))
         IN  Pixel(read_u8(d, p))

\* The pixel loop of a frame: `while pixel_palette_indexes.len() < size`.
RECURSIVE bam_pixels(_, _, _, _, _, _)
bam_pixels(d, p, size, compressed, rle, acc) ==
    IF Len(acc) >= size THEN [ok |-> TRUE, pixels |-> acc, pos |-> p]
    ELSE LET Run(px, cnt) ==
                 IF ~cnt.ok THEN [ok |-> FALSE, pixels |-> acc, pos |-> cnt.pos]
                 ELSE bam_pixels(d, cnt.pos, size, compressed, rle,
                                 acc \o Repeat(px.val, cnt.val + 1))
             Pixel(px) ==
                 IF ~px.ok THEN [ok |-> FALSE, pixels |-> acc, pos |-> px.pos]
                 ELSE IF compressed /\ px.val = rle
                 THEN Run(px, read_u8(d, px.pos))
                 ELSE bam_pixels(d, px.pos, size, compressed, rle,
                                 Append(acc, px.val))
         IN  Pixel(read_u8(d, p))

\* bam_frames without `reader.set_position(position)?` behind the pixel
\* loop: the next record is read where the pixel data ended.
RECURSIVE bam_frames_no_restore(_, _, _, _, _, _)
bam_frames_no_restore(d, p, left, rle, acc, at) ==
    IF left = 0 THEN [ok |-> TRUE, frames |-> acc, at |-> at, pos |-> p]
    ELSE LET Decoded(f, position, px) ==
                 IF ~px.ok
                 THEN [ok |-> FALSE, frames |-> acc, at |-> at, pos |-> px.pos]
                 ELSE bam_frames_no_restore(d, px.pos,
                         left - 1, rle,
                         Append(acc,
                             [width |-> u16_from_le_bytes(f.vals[1]),
                              height |-> u16_from_le_bytes(f.vals[2]),
                              center_x |-> u16_from_le_bytes(f.vals[3]),
                              center_y |-> u16_from_le_bytes(f.vals[4]),
                              pixel_palette_indexes |-> px.pixels]),
                         Append(at, p))
             Frame(f) ==
                 IF ~f.ok THEN [ok |-> FALSE, frames |-> acc, at |-> at, pos |-> f.pos]
                 ELSE LET width == u16_from_le_bytes(f.vals[1])
                          height == u16_from_le_bytes(f.vals[2])
                          data_bits == u32_from_le_bytes(f.vals[5])
                          \* data_bits & 0x7fffffff, (data_bits & 0x80000000) == 0
                          data_offset == (data_bits.hi % 32768) * 65536 + data_bits.lo
                          compressed == data_bits.hi < 32768
                          size == width * height
                          position == f.pos
                      IN  Decoded(f, position,
                              bam_pixels(d, set_position(position, data_offset),
                                         size, compressed, rle, <<>>))
         IN  Frame(read_fields(d, p, <<2, 2, 2, 2, 4>>))

\* The frame loop: each 12-byte record is read at the cursor, the pixels at
\* data_offset, and the cursor is put back behind the record.  `at` collects
\* the offsets the records were read at.
RECURSIVE bam_frames(_, _, _, _, _, _)
bam_frames(d, p, left, rle, acc, at) ==
    IF left = 0 THEN [ok |-> TRUE, frames |-> acc, at |-> at, pos |-> p]
    ELSE LET Decoded(f, position, px) ==
                 IF ~px.ok
                 THEN [ok |-> FALSE, frames |-> acc, at |-> at, pos |-> px.pos]
                 ELSE bam_frames(d, set_position(px.pos, position),
                         left - 1, rle,
                         Append(acc,
                             [width |-> u16_from_le_bytes(f.vals[1]),
                              height |-> u16_from_le_bytes(f.vals[2]),
                              center_x |-> u16_from_le_bytes(f.vals[3]),
                              center_y |-> u16_from_le_bytes(f.vals[4]),
                              pixel_palette_indexes |-> px.pixels]),
                         Append(at, p))
             Frame(f) ==
                 IF ~f.ok THEN [ok |-> FALSE, frames |-> acc, at |-> at, pos |-> f.pos]
                 ELSE LET width == u16_from_le_bytes(f.vals[1])
                          height == u16_from_le_bytes(f.vals[2])
                          data_bits == u32_from_le_bytes(f.vals[5])
                          \* data_bits & 0x7fffffff, (data_bits & 0x80000000) == 0
                          data_offset == (data_bits.hi % 32768) * 65536 + data_bits.lo
                          compressed == data_bits.hi < 32768
                          size == width * height
                          position == f.pos
                      IN  Decoded(f, position,
                              bam_pixels(d, set_position(position, data_offset),
                                         size, compressed, rle, <<>>))
         IN  Frame(read_fields(d, p, <<2, 2, 2, 2, 4>>))

\* The cycle loop: each 4-byte record is read at the cursor, its frame
\* indices at lookup_offset + 2 * lookup_table_index, and the cursor is put
\* back behind the record.
RECURSIVE bam_cycles(_, _, _, _, _, _)
bam_cycles(d, p, left, lookup_offset, acc, at) ==
    IF left = 0 THEN [ok |-> TRUE, cycles |-> acc, at |-> at, pos |-> p]
    ELSE LET Indices(position, t) ==
                 IF ~t.ok
                 THEN [ok |-> FALSE, cycles |-> acc, at |-> at, pos |-> t.pos]
                 ELSE bam_cycles(d, set_position(t.pos, position),
                         left - 1, lookup_offset,
                         Append(acc,
                             [frame_indices |->
                                 [k \in 1..Len(t.rows) |->
                                     u16_from_le_bytes(t.rows[k][1])]]),
                         Append(at, p))
             Cycle(c) ==
                 IF ~c.ok THEN [ok |-> FALSE, cycles |-> acc, at |-> at, pos |-> c.pos]
                 ELSE LET indices_count == u16_from_le_bytes(c.vals[1])
                          lookup_table_index == u16_from_le_bytes(c.vals[2])
                          position == c.pos
                      IN  Indices(position,
                              read_table(d,
                                  set_position(position,
                                      lookup_offset + (2 * lookup_table_index)),
                                  indices_count, <<2>>))
         IN  Cycle(read_fields(d, p, <<2, 2>>))

\* BamV1Parser::import(reader) with the reader's cursor at p.  Besides the
\* BamV1 record (type, frames, palette, cycles, rle_compressed_color_index)
\* the result keeps the local transparency_index and the offsets the frame
\* and cycle records were read at.
BamV1Parser_import(d, p, overflow_checks) ==
    LET Record(h, pal, fr, cy) ==
            IF ~cy.ok THEN Eof
            ELSE [status |-> "ok",
                  type |-> "BamV1",
                  frames |-> fr.frames,
                  cycles |-> cy.cycles,
                  palette |-> pal.palette,
                  rle_compressed_color_index |-> u8_from_le_bytes(h.vals[3]),
                  transparency_index |-> pal.transparency_index,
                  frames_at |-> fr.at,
                  cycles_at |-> cy.at]
        Cycles(h, pal, fr) ==
            IF ~fr.ok THEN Eof
            ELSE LET cycles_count == u8_from_le_bytes(h.vals[2])
                     lookup_offset == as_u64(u32_from_le_bytes(h.vals[6]))
                 IN  Record(h, pal, fr,
                            bam_cycles(d, fr.pos, cycles_count, lookup_offset,
                                       <<>>, <<>>))
        Frames(h, pal) ==
            IF pal.status = "panic" THEN Panicked(pal.why)
            ELSE IF pal.status = "err" THEN Eof
            ELSE LET frames_count == u16_from_le_bytes(h.vals[1])
                     rle_compressed_color_index == u8_from_le_bytes(h.vals[3])
                     frames_offset == as_u64(u32_from_le_bytes(h.vals[4]))
                 IN  Cycles(h, pal,
                            bam_frames(d, set_position(pal.pos, frames_offset),
                                       frames_count, rle_compressed_color_index,
                                       <<>>, <<>>))
        Palette(h) ==
            IF ~h.ok THEN Eof
            ELSE LET palette_offset == as_u64(u32_from_le_bytes(h.vals[5]))
                     lookup_offset == as_u64(u32_from_le_bytes(h.vals[6]))
                 IN  Frames(h, bam_palette(d, h.pos, palette_offset, lookup_offset,
                                           overflow_checks))
        Header(signature) ==
            IF signature.val # BAM_V1_SIGNATURE
            THEN Failed("Wrong file type: ", signature.val)
            ELSE Palette(read_fields(d, signature.pos, <<2, 1, 1, 4, 4, 4>>))
    IN  Header(read_string(d, p, 8))

\* The record a BAM v1 import returns to its caller: the fields of
\* struct BamV1, without what the model keeps of the run.
BamV1Record(r) ==
    [type |-> r.type, frames |-> r.frames, cycles |-> r.cycles,
     palette |-> r.palette,
     rle_compressed_color_index |-> r.rle_compressed_color_index]

---------------------------------------------------------------------------
(* The zlib layer: Reader::as_zip_reader wraps the source in a ZlibDecoder
   (RFC 1950 around RFC 1951).  The streams of the model hold stored
   (uncompressed) deflate blocks:
     CMF FLG | { BFINAL/BTYPE byte, LEN lo hi, NLEN lo hi, LEN bytes }* |
     Adler-32 of the inflated bytes, big-endian. *)

AdlerBase == 65521

\* The sum of w[i] over lo..hi, by halves.
RECURSIVE SumRange(_, _, _)
SumRange(w, lo, hi) ==
    IF lo > hi THEN 0
    ELSE IF lo = hi THEN w[lo]
    ELSE LET mid == (lo + hi) \div 2
         IN  SumRange(w, lo, mid) + SumRange(w, mid + 1, hi)

\* Adler-32 as its two 16-bit sums: s1 is 1 plus the bytes, s2 the sum of
\* the values s1 takes after each byte.
adler32(bytes) ==
    LET n == Len(bytes)
    IN  [s1 |-> (1 + SumRange(bytes, 1, n)) % AdlerBase,
         s2 |-> (n + SumRange([i \in 1..n |-> (n - i + 1) * bytes[i]], 1, n))
                    % AdlerBase]

\* The 4 trailer bytes of a zlib stream over `bytes`.
adler32_be(bytes) ==
    LET Trailer(a) == <<a.s2 \div 256, a.s2 % 256, a.s1 \div 256, a.s1 % 256>>
    IN  Trailer(adler32(bytes))

\* The stored blocks of `bytes`, at most `chunk` bytes in each; the last one
\* carries BFINAL.
RECURSIVE deflate_stored(_, _)
deflate_stored(bytes, chunk) ==
    LET n == Min(chunk, Len(bytes))
        final == n = Len(bytes)
    IN  <<IF final THEN 1 ELSE 0>> \o to_le_bytes(n, 2) \o to_le_bytes(65535 - n, 2)
        \o SubSeq(bytes, 1, n)
        \o (IF final THEN <<>>
            ELSE deflate_stored(SubSeq(bytes, n + 1, Len(bytes)), chunk))

\* A zlib stream that inflates to `bytes`.
zlib_stored(bytes, chunk) ==
    <<120, 1>> \o deflate_stored(bytes, chunk) \o adler32_be(bytes)

\* The deflate blocks of d from p on: the bytes they inflate to, up to the
\* first malformed or missing byte.
RECURSIVE inflate_blocks(_, _, _)
inflate_blocks(d, p, acc) ==
    LET Corrupt(out, pos) ==
            [ok |-> FALSE, err |-> "corrupt deflate stream", out |-> out, pos |-> pos]
        Stored(h, bfinal, len, data) ==
            IF Len(data) < len THEN Corrupt(acc \o data, Len(d))
            ELSE IF bfinal = 1
            THEN [ok |-> TRUE, err |-> "", out |-> acc \o data, pos |-> h.pos + len]
            ELSE inflate_blocks(d, h.pos + len, acc \o data)
        Block(h) ==
            IF ~h.ok THEN Corrupt(acc, h.pos)
            ELSE LET bfinal == h.val[1] % 2
                     btype == (h.val[1] \div 2) % 4
                     len == h.val[2] + 256 * h.val[3]
                     nlen == h.val[4] + 256 * h.val[5]
                 IN  IF btype # 0 \/ len + nlen # 65535
                     THEN Corrupt(acc, h.pos)
                     ELSE Stored(h, bfinal, len,
                                 SubSeq(d, h.pos + 1, Min(Len(d), h.pos + len)))
    IN  Block(read_exact(d, p, 5))

\* ZlibDecoder over the source d from its cursor p: `out` is what reads of
\* the decoder deliver before it ends (ok) or fails (~ok); pos is the cursor
\* of the wrapped source when the whole stream has been read.
inflate(d, p) ==
    LET Corrupt(out, pos) ==
            [ok |-> FALSE, err |-> "corrupt deflate stream", out |-> out, pos |-> pos]
        Trailer(b, t) ==
            IF ~t.ok \/ t.val # adler32_be(b.out) THEN Corrupt(b.out, t.pos)
            ELSE [ok |-> TRUE, err |-> "", out |-> b.out, pos |-> t.pos]
        Blocks(b) ==
            IF ~b.ok THEN b ELSE Trailer(b, read_exact(d, b.pos, 4))
        Header(h) ==
            IF ~h.ok THEN Corrupt(<<>>, h.pos)
            ELSE IF \/ h.val[1] % 16 # 8 \/ h.val[1] \div 16 > 7
                    \/ (h.val[1] * 256 + h.val[2]) % 31 # 0
                    \/ (h.val[2] \div 32) % 2 = 1
            THEN Corrupt(<<>>, h.pos)
            ELSE Blocks(inflate_blocks(d, h.pos, <<>>))
    IN  Header(read_exact(d, p, 2))

\* reader.as_zip_reader().decode_all(): the whole stream inflated into
\* memory, or the decoder's error.
decode_all(d, p) == inflate(d, p)

---------------------------------------------------------------------------
(* BAM v2, BAMC and the BAM dispatcher: bam/bam_v2.rs, bam/bamc.rs,
   bam/mod.rs *)

\* BamV2Parser::import(reader) with the reader's cursor at p.
BamV2Parser_import(d, p) ==
    LET Record(fr, cy, db) ==
            IF ~db.ok THEN Eof
            ELSE [status |-> "ok",
                  type |-> "BamV2",
                  frames |-> [i \in 1..Len(fr.rows) |->
                      [width |-> u16_from_le_bytes(fr.rows[i][1]),
                       height |-> u16_from_le_bytes(fr.rows[i][2]),
                       center_x |-> u16_from_le_bytes(fr.rows[i][3]),
                       center_y |-> u16_from_le_bytes(fr.rows[i][4]),
                       data_blocks_start_index |-> u16_from_le_bytes(fr.rows[i][5]),
                       data_blocks_count |-> u16_from_le_bytes(fr.rows[i][6])]],
                  cycles |-> [i \in 1..Len(cy.rows) |->
                      [frames_count |-> u16_from_le_bytes(cy.rows[i][1]),
                       frame_start_index |-> u16_from_le_bytes(cy.rows[i][2])]],
                  data_blocks |-> [i \in 1..Len(db.rows) |->
                      [pvrz_page |-> u32_from_le_bytes(db.rows[i][1]),
                       source_x_coordinate |-> u32_from_le_bytes(db.rows[i][2]),
                       source_y_coordinate |-> u32_from_le_bytes(db.rows[i][3]),
                       width |-> u32_from_le_bytes(db.rows[i][4]),
                       height |-> u32_from_le_bytes(db.rows[i][5]),
                       target_x_coordinate |-> u32_from_le_bytes(db.rows[i][6]),
                       target_y_coordinate |-> u32_from_le_bytes(db.rows[i][7])]]]
        DataBlocks(h, fr, cy) ==
            IF ~cy.ok THEN Eof
            ELSE LET data_blocks_count == as_u64(u32_from_le_bytes(h.vals[3]))
                     data_blocks_offset == as_u64(u32_from_le_bytes(h.vals[6]))
                 IN  Record(fr, cy,
                            read_table(d, set_position(cy.pos, data_blocks_offset),
                                       data_blocks_count, <<4, 4, 4, 4, 4, 4, 4>>))
        Cycles(h, fr) ==
            IF ~fr.ok THEN Eof
            ELSE LET cycles_count == as_u64(u32_from_le_bytes(h.vals[2]))
                     cycles_offset == as_u64(u32_from_le_bytes(h.vals[5]))
                 IN  DataBlocks(h, fr,
                                read_table(d, set_position(fr.pos, cycles_offset),
                                           cycles_count, <<2, 2>>))
        Frames(h) ==
            IF ~h.ok THEN Eof
            ELSE LET frames_count == as_u64(u32_from_le_bytes(h.vals[1]))
                     frames_offset == as_u64(u32_from_le_bytes(h.vals[4]))
                 IN  Cycles(h, read_table(d, set_position(h.pos, frames_offset),
                                          frames_count, <<2, 2, 2, 2, 2, 2>>))
        Header(signature) ==
            IF signature.val # BAM_V2_SIGNATURE
            THEN Failed("Wrong file type: ", signature.val)
            ELSE Frames(read_fields(d, signature.pos, <<4, 4, 4, 4, 4, 4>>))
    IN  Header(read_string(d, p, 8))

\* BamImporter::from_reader on the inflated bytes: the BAM v1 parser from
\* their first byte.
from_reader(d, overflow_checks) == BamV1Parser_import(d, 0, overflow_checks)

\* BamcParser::import that takes the bytes behind the signature for the
\* zlib stream.
BamcParser_import_no_size(d, p, overflow_checks) ==
    LET Inflated(uncompressed_reader) ==
            IF ~uncompressed_reader.ok
            THEN Failed(uncompressed_reader.err, <<>>)
            ELSE from_reader(uncompressed_reader.out, overflow_checks)
        Header(signature) ==
            IF signature.val # BAMC_SIGNATURE
            THEN Failed("Wrong file type: ", signature.val)
            ELSE Inflated(decode_all(d, signature.pos))
    IN  Header(read_string(d, p, 8))

\* BamcParser::import(reader) with the reader's cursor at p.
BamcParser_import(d, p, overflow_checks) ==
    LET Inflated(uncompressed_reader) ==
            IF ~uncompressed_reader.ok
            THEN Failed(uncompressed_reader.err, <<>>)
            ELSE from_reader(uncompressed_reader.out, overflow_checks)
        Size(_uncompressed_size) ==
            IF ~_uncompressed_size.ok THEN Eof
            ELSE Inflated(decode_all(d, _uncompressed_size.pos))
        Header(signature) ==
            IF signature.val # BAMC_SIGNATURE
            THEN Failed("Wrong file type: ", signature.val)
            ELSE Size(read_u32(d, signature.pos))
    IN  Header(read_string(d, p, 8))

\* detect_bam_type(reader) with the reader's cursor at p.
detect_bam_type(d, p) ==
    LET Type(value) ==
            CASE value.val = BAM_V1_SIGNATURE ->
                    [status |-> "ok", type |-> "BamV1", pos |-> value.pos]
              [] value.val = BAM_V2_SIGNATURE ->
                    [status |-> "ok", type |-> "BamV2", pos |-> value.pos]
              [] value.val = BAMC_SIGNATURE ->
                    [status |-> "ok", type |-> "BamC", pos |-> value.pos]
              [] OTHER -> Failed("Unsupported BAM file: ", value.val)
    IN  Type(read_string(d, p, 8))

\* BamImporter::import(source) for a source of the bytes d with base offset
\* `base`: which sub-parser was called (none if detection failed), the
\* cursor it was called with, and what it returned.
BamImporter_import(d, base, overflow_checks) ==
    LET Parse(t, start) ==
            CASE t.type = "BamV1" ->
                    [parser |-> "BamV1Parser", start |-> start,
                     result |-> BamV1Parser_import(d, start, overflow_checks)]
              [] t.type = "BamV2" ->
                    [parser |-> "BamV2Parser", start |-> start,
                     result |-> BamV2Parser_import(d, start)]
              [] t.type = "BamC" ->
                    [parser |-> "BamcParser", start |-> start,
                     result |-> BamcParser_import(d, start, overflow_checks)]
        Detected(position, t) ==
            IF t.status # "ok"
            THEN [parser |-> "none", start |-> position, result |-> t]
            ELSE Parse(t, set_position(t.pos, position))
        Opened(position) == Detected(position, detect_bam_type(d, position))
    IN  Opened(reader(base))

---------------------------------------------------------------------------
(* BAM v1 files: the layout BamV1Parser::import reads, written out from a
   description `f` of the file: pal (stored B, G, R, A of each palette
   entry), rle, frames (width, height, compressed, data bytes), cycles
   (count, start), lookup (frame indices), sig (the 8 signature bytes).
   Layout: header (24 bytes) | frame records | cycle records | palette |
   lookup table | frame data. *)

BamFramesOffset == 24
BamPaletteOffset(f) == BamFramesOffset + 12 * Len(f.frames) + 4 * Len(f.cycles)
BamLookupOffset(f) == BamPaletteOffset(f) + 4 * Len(f.pal)
BamDataStart(f) == BamLookupOffset(f) + 2 * Len(f.lookup)

\* The lookup_offset field of the header: f.shift bytes off the place of
\* the lookup table.
BamHeaderLookupOffset(f) == BamLookupOffset(f) + f.shift

\* The stored palette entries the header delimits: those that lie whole
\* between palette_offset and lookup_offset.
BamPaletteRegion(f) ==
    SubSeq(f.pal, 1,
           Min(256, (BamHeaderLookupOffset(f) - BamPaletteOffset(f)) \div 4))

\* The offset of the pixel data of frame i: behind the data of the frames
\* before it.
RECURSIVE BamDataOffset(_, _)
BamDataOffset(f, i) ==
    IF i = 1 THEN BamDataStart(f)
    ELSE BamDataOffset(f, i - 1) + Len(f.frames[i - 1].data)

BamFrameRecord(f, i) ==
    LET fr == f.frames[i]
        off == BamDataOffset(f, i)
        \* bit 31 set: the frame data is not RLE-compressed
        data_bits == [lo |-> off % 65536,
                      hi |-> (off \div 65536) + (IF fr.compressed THEN 0 ELSE 32768)]
    IN  to_le_bytes(fr.width, 2) \o to_le_bytes(fr.height, 2)
        \o to_le_bytes(1, 2) \o to_le_bytes(2, 2) \o u32_to_le_bytes(data_bits)

BamBody(f) ==
    f.sig \o to_le_bytes(Len(f.frames), 2) \o <<Len(f.cycles), f.rle>>
    \o to_le_bytes(BamFramesOffset, 4) \o to_le_bytes(BamPaletteOffset(f), 4)
    \o to_le_bytes(BamHeaderLookupOffset(f), 4)
    \o Flatten([i \in 1..Len(f.frames) |-> BamFrameRecord(f, i)])
    \o Flatten([i \in 1..Len(f.cycles) |->
                   to_le_bytes(f.cycles[i].count, 2)
                   \o to_le_bytes(f.cycles[i].start, 2)])
    \o Flatten(f.pal)
    \o Flatten([i \in 1..Len(f.lookup) |-> to_le_bytes(f.lookup[i], 2)])
    \o Flatten([i \in 1..Len(f.frames) |-> f.frames[i].data])

\* The file as it lies in a larger buffer: f.pad bytes before it.
BamEmbedded(f) == Repeat(0, f.pad) \o BamBody(f)

\* Bound: the bytes of a stored deflate block of a generated zlib stream.
ZChunk == 16

\* The BAMC file that wraps the BAM v1 file of f: signature, advisory size,
\* zlib stream of the body.
BamcFile(f) ==
    BAMC_SIGNATURE \o to_le_bytes(Len(BamBody(f)), 4)
    \o zlib_stored(BamBody(f), ZChunk)

---------------------------------------------------------------------------
(* SpecBam: BAM imports of one input file by each route: BamV1Parser on the
   file itself, BamV1Parser through DataSource::new_with_offset on the file
   embedded in a larger buffer, BamcParser on its BAMC wrapper, and the
   dispatcher BamImporter. *)

\* Bound: the number of palette entries of an input.
MaxPal == 3
\* Bound: the number of pixel-data bytes of a frame.
MaxData == 3
\* Bound: the width and the height of a frame.
MaxDim == 2
\* Bound: the bytes in front of an embedded file.
MaxPad == 2

\* Stored palette entries B, G, R, A: pure green, a colour with alpha 0 and
\* a colour with its own alpha.
PureGreen == <<0, 255, 0, 0>>
PalColors == {PureGreen, <<9, 8, 7, 0>>, <<3, 2, 1, 4>>}

\* Pixel-data bytes; 0 and 1 are also the RLE markers of the inputs.
PixBytes == {0, 1, 2}

BamDefault ==
    [sig |-> BAM_V1_SIGNATURE, pal |-> <<<<9, 8, 7, 0>>, PureGreen>>, rle |-> 0,
     frames |-> <<[width |-> 2, height |-> 1, compressed |-> TRUE,
                  data |-> <<0, 1>>]>>,
     cycles |-> <<[count |-> 2, start |-> 0]>>, lookup |-> <<0, 0>>,
     pad |-> 0, shift |-> 0, overflow_checks |-> TRUE]

\* Every palette up to MaxPal entries (the empty one too).
BamPalFamily ==
    {[BamDefault EXCEPT !.pal = pal] : pal \in SeqsOf(PalColors, 0, MaxPal)}

\* One frame of every size, compressed or not, with every pixel data, under
\* either RLE marker.
BamFrameFamily ==
    {[BamDefault EXCEPT !.rle = rle,
                        !.frames = <<[width |-> w, height |-> h,
                                      compressed |-> c, data |-> data]>>] :
        rle \in {0, 1}, w \in 1..MaxDim, h \in 1..MaxDim, c \in BOOLEAN,
        data \in SeqsOf(PixBytes, 1, MaxData)}

\* The file behind up to MaxPad other bytes.
BamPadFamily == {[BamDefault EXCEPT !.pad = pad] : pad \in 1..MaxPad}

\* Frames and cycles of the files with two of each.
TableFrames ==
    {[width |-> 1, height |-> 1, compressed |-> TRUE, data |-> <<2>>],
     [width |-> 2, height |-> 1, compressed |-> FALSE, data |-> <<0, 1>>],
     [width |-> 1, height |-> 2, compressed |-> TRUE, data |-> <<0, 1>>]}

TableCycles == {[count |-> c, start |-> t] : c \in 0..2, t \in 0..2}

\* Two frame records and two cycle records over a lookup table of three
\* entries, with every pair of frames and of cycles.
BamTableFamily ==
    {[BamDefault EXCEPT !.frames = <<f1, f2>>, !.cycles = <<c1, c2>>,
                        !.lookup = <<1, 0, 1>>] :
        f1 \in TableFrames, f2 \in TableFrames,
        c1 \in TableCycles, c2 \in TableCycles}

\* Bound: by how many bytes the lookup_offset field of a header lies before
\* the lookup table.
MaxShift == 10

\* Headers whose lookup_offset lies inside or before the palette of two
\* entries, imported by a build with and without overflow checks.
BamShiftFamily ==
    {[BamDefault EXCEPT !.shift = 0 - s, !.overflow_checks = c] :
        s \in 1..MaxShift, c \in BOOLEAN}

BamInputs ==
    BamPalFamily \cup BamFrameFamily \cup BamPadFamily \cup BamTableFamily
    \cup BamShiftFamily

BamInit ==
    /\ bamIn \in BamInputs
    /\ bamOut = [v1 |-> NotRun, embedded |-> NotRun, bamc |-> NotRun]
    /\ rdData = <<>> /\ rdPos = 0 /\ rdRes = Idle
    /\ blocks = <<>> /\ nextBlock = 0 /\ buffer = Idle
    /\ offset = 0 /\ delivered = <<>> /\ lastRead = Idle
    /\ bifIn = Idle /\ bifOut = Idle
    /\ keyIn = Idle /\ keyOut = Idle /\ fsPaths = Idle /\ fsOut = Idle
    /\ imgIn = Idle /\ imgOut = Idle /\ rowIn = Idle /\ rowOut = Idle
    /\ tyIn = Idle /\ tyOut = Idle

\* BamV1Parser::import(&mut DataSource::new(file).reader())
ImportBamV1 ==
    /\ bamOut.v1 = NotRun
    /\ bamOut' = [bamOut EXCEPT !.v1 =
           BamV1Parser_import(BamBody(bamIn), reader(0), bamIn.overflow_checks)]
    /\ UNCHANGED <<bamIn, rdVars, bifcVars, bifVars,
                 keyVars, fsVars, imgVars, rowVars, tyVars>>

\* BamV1Parser::import(&mut DataSource::new_with_offset(buffer, pad).reader())
ImportBamV1Embedded ==
    /\ bamOut.embedded = NotRun
    /\ bamOut' = [bamOut EXCEPT !.embedded =
           BamV1Parser_import(BamEmbedded(bamIn), reader(bamIn.pad),
                              bamIn.overflow_checks)]
    /\ UNCHANGED <<bamIn, rdVars, bifcVars, bifVars,
                 keyVars, fsVars, imgVars, rowVars, tyVars>>

\* BamcParser::import(&mut DataSource::new(bamc_file).reader())
ImportBamc ==
    /\ bamOut.bamc = NotRun
    /\ bamOut' = [bamOut EXCEPT !.bamc =
           BamcParser_import(BamcFile(bamIn), reader(0), bamIn.overflow_checks)]
    /\ UNCHANGED <<bamIn, rdVars, bifcVars, bifVars,
                 keyVars, fsVars, imgVars, rowVars, tyVars>>

BamNext == ImportBamV1 \/ ImportBamV1Embedded \/ ImportBamc

SpecBam ==
    /\ BamInit
    /\ [][BamNext]_vars

(* C1: on every BAM v1 input on which the import succeeds, every frame's
   decoded bitmap has exactly width * height palette indices. *)
C1_BitmapLength ==
    bamOut.v1.status = "ok" =>
        \A i \in 1..Len(bamOut.v1.frames) :
            Len(bamOut.v1.frames[i].pixel_palette_indexes)
                = bamOut.v1.frames[i].width * bamOut.v1.frames[i].height

\* The first index of the stored palette whose entry is pure green, 0 if
\* there is none.
FirstGreen(pal) ==
    IF \E i \in 1..Len(pal) : pal[i][1] = 0 /\ pal[i][2] = 255 /\ pal[i][3] = 0
    THEN (CHOOSE i \in 1..Len(pal) :
              /\ pal[i][1] = 0 /\ pal[i][2] = 255 /\ pal[i][3] = 0
              /\ \A j \in 1..(i - 1) :
                    ~(pal[j][1] = 0 /\ pal[j][2] = 255 /\ pal[j][3] = 0)) - 1
    ELSE 0

(* C2: the transparency index is the first palette index, in scan order,
   whose stored RGB is (0, 255, 0), and 0 if there is none; the entry
   overwritten with (0, 255, 0, 0) is the one at that index. *)
C2_FirstGreenIsTransparent ==
    bamOut.v1.status = "ok" =>
        /\ bamOut.v1.transparency_index = FirstGreen(BamPaletteRegion(bamIn))
        /\ bamOut.v1.palette[FirstGreen(BamPaletteRegion(bamIn)) + 1]
               = [r |-> 0, g |-> 255, b |-> 0, alpha |-> 0]

(* C3: for every BAM v1 body, the import of the BAMC file that wraps it ends
   as the import of the body by the BAM v1 parser does, and when they
   succeed the two records are equal (frames, palette, cycles, rle marker). *)
C3_BamcEqualsBamV1 ==
    bamOut.v1 # NotRun /\ bamOut.bamc # NotRun =>
        /\ bamOut.bamc.status = bamOut.v1.status
        /\ bamOut.v1.status = "ok" =>
               BamV1Record(bamOut.bamc) = BamV1Record(bamOut.v1)

\* Both imports succeeded on a body with an RLE run, wrapped in a zlib stream
\* of several deflate blocks.
C3_Witness ==
    /\ bamOut.v1 # NotRun /\ bamOut.bamc # NotRun
    /\ bamOut.bamc.status = "ok" /\ bamOut.v1.status = "ok"
    /\ Len(BamBody(bamIn)) > 2 * ZChunk
    /\ bamIn.frames[1].compressed
    /\ Len(bamOut.bamc.frames[1].pixel_palette_indexes) > Len(bamIn.frames[1].data)

(* C8: importing a resource embedded at byte b of a larger buffer through
   DataSource::new_with_offset(buffer, b) yields the same record as
   importing the bytes buffer[b..] as a standalone source. *)
C8_BaseOffsetIsOrigin ==
    bamOut.v1 # NotRun /\ bamOut.embedded # NotRun =>
        /\ bamOut.embedded.status = bamOut.v1.status
        /\ bamOut.v1.status = "ok" =>
               BamV1Record(bamOut.embedded) = BamV1Record(bamOut.v1)

---------------------------------------------------------------------------
(* BifcCompressedReader: bif/bifc_reader.rs.  Its internal buffer is a
   std VecDeque<u8>, a ring buffer: `cap` slots, the first element in slot
   `head`, the elements `items` in logical order.  Only the operations the
   adapter calls are modelled: extend (from fill_buffer) and the io::Read
   implementation of VecDeque<u8> (from read). *)

\* VecDeque::new()
vd_new == [cap |-> 0, head |-> 0, items |-> <<>>]

\* The length of the first of the two slices of VecDeque::as_slices: the
\* elements stored from `head` up to the end of the allocation.
vd_front_len(b) == Min(Len(b.items), b.cap - b.head)

\* RawVec::grow_amortized for a u8 buffer: at least double, at least 8.
vd_grown_cap(b, additional) ==
    Max(8, Max(2 * b.cap, Len(b.items) + additional))

\* VecDeque::handle_capacity_increase: the head after growing from b.cap to
\* new_cap.  A contiguous buffer stays where it is; of a wrapped one either
\* the wrapped tail is moved behind the old end (head unchanged) or the head
\* section is moved to the end of the new allocation.
vd_head_after_grow(b, new_cap) ==
    LET len == Len(b.items)
        head_len == b.cap - b.head
        tail_len == len - head_len
    IN  IF b.head <= b.cap - len THEN b.head
        ELSE IF head_len > tail_len /\ new_cap - b.cap >= tail_len THEN b.head
        ELSE new_cap - head_len

\* VecDeque::extend(&slice): reserve(slice.len()), then copy behind the last
\* element, wrapping to slot 0 at the end of the allocation.
vd_extend(b, slice) ==
    IF Len(b.items) + Len(slice) > b.cap
    THEN LET Grown(new_cap) ==
                 [cap |-> new_cap, head |-> vd_head_after_grow(b, new_cap),
                  items |-> b.items \o slice]
         IN  Grown(vd_grown_cap(b, Len(slice)))
    ELSE [b EXCEPT !.items = b.items \o slice]

\* VecDeque::drain(..n) dropped at once: the first n elements leave; a deque
\* drained empty has its head reset to slot 0.
vd_drain_front(b, n) ==
    IF Len(b.items) = n
    THEN [b EXCEPT !.head = 0, !.items = <<>>]
    ELSE [b EXCEPT !.head = (b.head + n) % b.cap,
                   !.items = SubSeq(b.items, n + 1, Len(b.items))]

\* Mutant of vd_read: a read that serves both slices of the ring.
vd_read_both_slices(b, len) ==
    LET Copy(n) ==
            [n |-> n, bytes |-> SubSeq(b.items, 1, n), buffer |-> vd_drain_front(b, n)]
    IN  Copy(Min(Len(b.items), len))

\* <VecDeque<u8> as io::Read>::read(buf), buf.len() = len: copies from the
\* front slice only, so a wrapped buffer yields fewer bytes than it holds.
vd_read(b, len) ==
    LET Copy(n) ==
            [n |-> n, bytes |-> SubSeq(b.items, 1, n), buffer |-> vd_drain_front(b, n)]
    IN  Copy(Min(vd_front_len(b), len))

\* BifcCompressedReader::fill_buffer: the frame of the next block is read
\* from the underlying reader (an error at its end), the block is inflated
\* and appended to the buffer.  `blks` are the inflated blocks in file
\* order, nb the number of blocks consumed so far.
fill_buffer(b, blks, nb) ==
    IF nb >= Len(blks)
    THEN [ok |-> FALSE, buffer |-> b, nextBlock |-> nb]
    ELSE [ok |-> TRUE, buffer |-> vd_extend(b, blks[nb + 1]), nextBlock |-> nb + 1]

\* BifcCompressedReader::read(buf) with buf.len() = len and buf zeroed by
\* the caller (Reader::read_exact passes [0u8; N]): `ret` is the returned
\* count, `copied` the bytes the buffer really gave, `out` the first `ret`
\* bytes of buf after the call.
bifc_read(b, blks, nb, off, len) ==
    LET Copied(fill, ret, rd) ==
            [ok |-> TRUE, ret |-> ret, copied |-> rd.n,
             out |-> rd.bytes \o Repeat(0, ret - rd.n),
             buffer |-> rd.buffer, nextBlock |-> fill.nextBlock,
             offset |-> off + ret]
        Filled(fill) ==
            IF ~fill.ok
            THEN [ok |-> FALSE, ret |-> 0, copied |-> 0, out |-> <<>>,
                  buffer |-> fill.buffer, nextBlock |-> fill.nextBlock,
                  offset |-> off]
            ELSE Copied(fill, Min(len, Len(fill.buffer.items)),
                        vd_read(fill.buffer, len))
    IN  Filled(IF Len(b.items) < len THEN fill_buffer(b, blks, nb)
               ELSE [ok |-> TRUE, buffer |-> b, nextBlock |-> nb])

---------------------------------------------------------------------------
(* SpecBifc: the adapter over a file of inflated blocks, driven by read
   requests of any sizes.  The decoded stream is 1, 2, 3, ...: the byte at
   stream offset i is i + 1, so a lost, repeated or displaced byte shows. *)

\* Bound: the number of blocks of the file.
MaxBlocks == 3
\* Bound: the inflated size of a block.
MaxBlockLen == 4
\* Bound: the size of the caller's buffer in one read.
MaxRead == 4

\* The blocks of inflated sizes `sizes`, holding the stream 1, 2, 3, ...
RECURSIVE BlocksOf(_, _)
BlocksOf(sizes, first) ==
    IF sizes = <<>> THEN <<>>
    ELSE <<[i \in 1..Head(sizes) |-> first + i - 1]>>
         \o BlocksOf(Tail(sizes), first + Head(sizes))

BifcNone == [ok |-> TRUE, req |-> 0, ret |-> 0, copied |-> 0, refill |-> FALSE]

BifcInit ==
    /\ \E sizes \in SeqsOf(1..MaxBlockLen, 1, MaxBlocks) :
            blocks = BlocksOf(sizes, 1)
    /\ nextBlock = 0
    /\ buffer = vd_new
    /\ offset = 0
    /\ delivered = <<>>
    /\ lastRead = BifcNone
    /\ rdData = <<>> /\ rdPos = 0 /\ rdRes = Idle
    /\ bamIn = Idle /\ bamOut = Idle
    /\ bifIn = Idle /\ bifOut = Idle
    /\ keyIn = Idle /\ keyOut = Idle /\ fsPaths = Idle /\ fsOut = Idle
    /\ imgIn = Idle /\ imgOut = Idle /\ rowIn = Idle /\ rowOut = Idle
    /\ tyIn = Idle /\ tyOut = Idle

\* One call of BifcCompressedReader::read.
BifcRead ==
    /\ \E len \in 1..MaxRead :
        LET r == bifc_read(buffer, blocks, nextBlock, offset, len)
        IN  /\ buffer' = r.buffer
            /\ nextBlock' = r.nextBlock
            /\ offset' = r.offset
            /\ delivered' = delivered \o r.out
            /\ lastRead' = [ok |-> r.ok, req |-> len, ret |-> r.ret,
                            copied |-> r.copied,
                            refill |-> r.nextBlock # nextBlock]
    /\ UNCHANGED <<blocks, rdVars, bamVars, bifVars,
                 keyVars, fsVars, imgVars, rowVars, tyVars>>

BifcNext == BifcRead

SpecBifc ==
    /\ BifcInit
    /\ [][BifcNext]_vars

(* C5: for any sequence of reads the bytes delivered, in request order, are
   a prefix of the concatenation of the inflated blocks, and each read
   returns the number of bytes it copied out of the internal buffer. *)
C5_StreamIntact ==
    /\ IsPrefix(delivered, Flatten(blocks))
    /\ lastRead.ok => lastRead.ret = lastRead.copied

---------------------------------------------------------------------------
(* Readers of the BIF family.  The BIF parsers are generic in the byte
   source of their Reader: a seekable cursor over bytes (BIFF), a zlib
   decoder (BIF V1.0) or the block adapter (BIFC V1.0).  A reader `r` is
      [kind |-> "cursor", d, pos]                        or
      [kind |-> "bifc", blks, buffer, nextBlock, offset]
   and a decoder that has inflated to `out` reads as a cursor over out. *)

CursorReader(d, p) == [kind |-> "cursor", d |-> d, pos |-> p]

\* Read::read_exact on the block adapter: read calls until n bytes were
\* returned; a call that returns 0 is UnexpectedEof.
RECURSIVE bifc_read_exact(_, _, _)
bifc_read_exact(r, n, acc) ==
    IF n = 0 THEN [ok |-> TRUE, val |-> acc, r |-> r]
    ELSE LET Advanced(x, r2) ==
                 IF ~x.ok \/ x.ret = 0 THEN [ok |-> FALSE, val |-> NoValue, r |-> r2]
                 ELSE bifc_read_exact(r2, n - x.ret, acc \o x.out)
             Read(x) ==
                 Advanced(x, [r EXCEPT !.buffer = x.buffer,
                                       !.nextBlock = x.nextBlock,
                                       !.offset = x.offset])
         IN  Read(bifc_read(r.buffer, r.blks, r.nextBlock, r.offset, n))

\* take(size).read_to_end on the block adapter: read calls of the bytes
\* still wanted until all were returned or a call returns 0.
RECURSIVE bifc_read_to_end(_, _, _)
bifc_read_to_end(r, n, acc) ==
    IF n = 0 THEN [ok |-> TRUE, val |-> acc, r |-> r]
    ELSE LET Advanced(x, r2) ==
                 IF ~x.ok THEN [ok |-> FALSE, val |-> NoValue, r |-> r2]
                 ELSE IF x.ret = 0 THEN [ok |-> TRUE, val |-> acc, r |-> r2]
                 ELSE bifc_read_to_end(r2, n - x.ret, acc \o x.out)
             Read(x) ==
                 Advanced(x, [r EXCEPT !.buffer = x.buffer,
                                       !.nextBlock = x.nextBlock,
                                       !.offset = x.offset])
         IN  Read(bifc_read(r.buffer, r.blks, r.nextBlock, r.offset, n))

\* Reader::read_exact::<n>() on any reader.
r_read_exact(r, n) ==
    IF r.kind = "cursor"
    THEN LET Moved(x) == [ok |-> x.ok, val |-> x.val, r |-> [r EXCEPT !.pos = x.pos]]
         IN  Moved(read_exact(r.d, r.pos, n))
    ELSE bifc_read_exact(r, n, <<>>)

\* Reader::read_string(size) on any reader.
r_read_string(r, size) ==
    IF r.kind = "cursor"
    THEN LET Moved(x) == [ok |-> x.ok, val |-> x.val, r |-> [r EXCEPT !.pos = x.pos]]
         IN  Moved(read_string(r.d, r.pos, size))
    ELSE LET Decoded(x) ==
                 [ok |-> x.ok,
                  val |-> IF x.ok THEN trim_end_matches_nul(decode(x.val))
                          ELSE NoValue,
                  r |-> x.r]
         IN  Decoded(bifc_read_to_end(r, size, <<>>))

\* Successive read_exact calls of the widths ws on any reader.
RECURSIVE r_read_fields(_, _)
r_read_fields(r, ws) ==
    IF ws = <<>> THEN [ok |-> TRUE, vals |-> <<>>, r |-> r]
    ELSE LET Rest(x, rest) ==
                 [ok |-> rest.ok, vals |-> <<x.val>> \o rest.vals, r |-> rest.r]
             First(x) ==
                 IF ~x.ok THEN [ok |-> FALSE, vals |-> <<>>, r |-> x.r]
                 ELSE Rest(x, r_read_fields(x.r, Tail(ws)))
         IN  First(r_read_exact(r, Head(ws)))

\* skip(size): size calls of read_u8.
RECURSIVE r_skip(_, _)
r_skip(r, size) ==
    IF size = 0 THEN [ok |-> TRUE, r |-> r]
    ELSE LET Skipped(x) ==
                 IF ~x.ok THEN [ok |-> FALSE, r |-> x.r] ELSE r_skip(x.r, size - 1)
         IN  Skipped(r_read_exact(r, 1))

---------------------------------------------------------------------------
(* BIF family: bif/mod.rs, bif/biff_reader.rs, bif/bif.rs,
   bif/bifc_reader.rs, and ResourceType of key.rs *)

BIFFV1_SIGNATURE == <<66, 73, 70, 70, 86, 49, 32, 32>>
BIF_V1_0_SIGNATURE == <<66, 73, 70, 32, 86, 49, 46, 48>>
BIFCV1_0_SIGNATURE == <<66, 73, 70, 67, 86, 49, 46, 48>>

\* The match arms of ResourceType::from: code, variant.
ResourceTypeCodes ==
    {<<1, "Bmp">>, <<2, "Mve">>, <<4, "Wav">>, <<5, "Wfx">>, <<6, "Plt">>,
     <<952, "Tga">>, <<1000, "Bam">>, <<1001, "Wed">>, <<1002, "Chu">>,
     <<1003, "Tis">>, <<1004, "Mos">>, <<1005, "Itm">>, <<1006, "Spl">>,
     <<1007, "Bcs">>, <<1008, "Ids">>, <<1009, "Cre">>, <<1010, "Are">>,
     <<1011, "Dlg">>, <<1012, "Two">>, <<1013, "Gam">>, <<1014, "Sto">>,
     <<1015, "Wmp">>, <<1016, "Eff">>, <<1017, "Bs">>, <<1018, "Chr">>,
     <<1019, "Vvc">>, <<1020, "Vef">>, <<1021, "Pro">>, <<1022, "Bio">>,
     <<1023, "Wbm">>, <<1024, "Fnt">>, <<1026, "Gui">>, <<1027, "Sql">>,
     <<1028, "Pvrz">>, <<1029, "Glsl">>, <<1030, "Tot">>, <<1031, "Toh">>,
     <<1032, "Menu">>, <<1033, "Lua">>, <<1034, "Ttf">>, <<1035, "Png">>,
     <<1100, "Bah">>, <<2050, "Ini">>, <<2051, "Src">>, <<2052, "Maze">>,
     <<4094, "Mus">>, <<4095, "Acm">>}

\* ResourceType::from(bit)
ResourceType_from(bit) ==
    IF \E e \in ResourceTypeCodes : e[1] = bit
    THEN [variant |-> (CHOOSE e \in ResourceTypeCodes : e[1] = bit)[2]]
    ELSE [variant |-> "Unknown", code |-> bit]

\* v & 0xfffff on a u32.
and_0xfffff(v) == (v.hi % 16) * 65536 + v.lo

\* parse_bif_embedded_file(reader)
parse_bif_embedded_file(r) ==
    LET Entry(x) ==
            IF ~x.ok THEN [ok |-> FALSE, r |-> x.r]
            ELSE [ok |-> TRUE, r |-> x.r,
                  entry |-> [locator |-> and_0xfffff(u32_from_le_bytes(x.vals[1])),
                             offset |-> u32_from_le_bytes(x.vals[2]),
                             size |-> u32_from_le_bytes(x.vals[3]),
                             type |-> ResourceType_from(u16_from_le_bytes(x.vals[4]))]]
    IN  Entry(r_read_fields(r, <<4, 4, 4, 2, 2>>))

\* parse_bif_embedded_tileset(reader)
parse_bif_embedded_tileset(r) ==
    LET Entry(x) ==
            IF ~x.ok THEN [ok |-> FALSE, r |-> x.r]
            ELSE [ok |-> TRUE, r |-> x.r,
                  entry |-> [locator |-> and_0xfffff(u32_from_le_bytes(x.vals[1])),
                             offset |-> u32_from_le_bytes(x.vals[2]),
                             count |-> u32_from_le_bytes(x.vals[3]),
                             size |-> u32_from_le_bytes(x.vals[4]),
                             type |-> ResourceType_from(u16_from_le_bytes(x.vals[5]))]]
    IN  Entry(r_read_fields(r, <<4, 4, 4, 4, 2, 2>>))

\* `for _ in 0..files_number { push(parse_bif_embedded_file(reader)?) }`
RECURSIVE bif_files(_, _, _)
bif_files(r, left, acc) ==
    IF left = 0 THEN [ok |-> TRUE, r |-> r, entries |-> acc]
    ELSE LET Pushed(x) ==
                 IF ~x.ok THEN [ok |-> FALSE, r |-> x.r, entries |-> acc]
                 ELSE bif_files(x.r, left - 1, Append(acc, x.entry))
         IN  Pushed(parse_bif_embedded_file(r))

\* `for _ in 0..tilesets_number { push(parse_bif_embedded_tileset(reader)?) }`
RECURSIVE bif_tilesets(_, _, _)
bif_tilesets(r, left, acc) ==
    IF left = 0 THEN [ok |-> TRUE, r |-> r, entries |-> acc]
    ELSE LET Pushed(x) ==
                 IF ~x.ok THEN [ok |-> FALSE, r |-> x.r, entries |-> acc]
                 ELSE bif_tilesets(x.r, left - 1, Append(acc, x.entry))
         IN  Pushed(parse_bif_embedded_tileset(r))

\* BiffParser::import(reader) with the reader's cursor at p.
BiffParser_import(d, p) ==
    LET Record(fl, ts) ==
            IF ~ts.ok THEN Eof
            ELSE [status |-> "ok", type |-> "Biff",
                  resources |-> fl.entries \o ts.entries]
        Tilesets(h, fl) ==
            IF ~fl.ok THEN Eof
            ELSE LET tilesets_number == as_u64(u32_from_le_bytes(h.vals[2]))
                 IN  Record(fl, bif_tilesets(fl.r, tilesets_number, <<>>))
        Files(h) ==
            IF ~h.ok THEN Eof
            ELSE LET files_number == as_u64(u32_from_le_bytes(h.vals[1]))
                     files_offset == as_u64(u32_from_le_bytes(h.vals[3]))
                 IN  Tilesets(h,
                         bif_files(CursorReader(d, set_position(h.pos, files_offset)),
                                   files_number, <<>>))
        Header(signature) ==
            IF signature.val # BIFFV1_SIGNATURE
            THEN Failed("Wrong file type: ", signature.val)
            ELSE Files(read_fields(d, signature.pos, <<4, 4, 4>>))
    IN  Header(read_string(d, p, 8))

\* The decoded position of a reader: the cursor, or the bytes the block
\* adapter has returned.
r_position(r) == IF r.kind = "cursor" THEN r.pos ELSE r.offset

\* The head of the inflated BIFF body read through `zip`, as
\* BifParser::import and BifcParser::import read it: signature, counts,
\* files_offset, skip to the entry table.  `skipped` is remaining_bytes and
\* r the reader behind the skip.
bif_inflated_header(zip) ==
    LET Skipped(h, remaining_bytes, sk) ==
            IF ~sk.ok THEN Eof
            ELSE [status |-> "ok",
                  files_number |-> as_u64(u32_from_le_bytes(h.vals[1])),
                  tilesets_number |-> as_u64(u32_from_le_bytes(h.vals[2])),
                  files_offset |-> u32_from_le_bytes(h.vals[3]),
                  skipped |-> remaining_bytes,
                  r |-> sk.r]
        Skip(h) ==
            IF ~h.ok THEN Eof
            ELSE LET files_offset == u32_from_le_bytes(h.vals[3])
                     current_offset == 20
                 IN  IF files_offset.hi = 0 /\ files_offset.lo < current_offset
                     THEN Failed("Invalid decompressed BIFF header offset: ",
                                 <<files_offset.lo>>)
                     ELSE LET remaining_bytes ==
                                  as_u64(files_offset) - current_offset
                          IN  Skipped(h, remaining_bytes,
                                      r_skip(h.r, remaining_bytes))
        Header(signature) ==
            IF ~signature.ok THEN Eof
            ELSE IF signature.val # BIFFV1_SIGNATURE
            THEN Failed("Wrong file type: ", signature.val)
            ELSE Skip(r_read_fields(signature.r, <<4, 4, 4>>))
    IN  Header(r_read_string(zip, 8))

\* The inflated BIFF body read through `zip`: its head, then the file
\* entries and the tileset entries.
bif_inflated_body(zip) ==
    LET Record(fl, ts) ==
            IF ~ts.ok THEN Eof
            ELSE [status |-> "ok", files |-> fl.entries, tilesets |-> ts.entries]
        Tilesets(h, fl) ==
            IF ~fl.ok THEN Eof
            ELSE Record(fl, bif_tilesets(fl.r, h.tilesets_number, <<>>))
        Files(h) ==
            IF h.status # "ok" THEN h
            ELSE Tilesets(h, bif_files(h.r, h.files_number, <<>>))
    IN  Files(bif_inflated_header(zip))

\* BifParser::import(reader) with the reader's cursor at p.
BifParser_import(d, p) ==
    LET Record(bif) ==
            IF bif.status # "ok" THEN bif
            ELSE [status |-> "ok", type |-> "Bif",
                  files |-> bif.files, tilesets |-> bif.tilesets]
        Body(lens) ==
            IF ~lens.ok THEN Eof
            ELSE Record(bif_inflated_body(CursorReader(inflate(d, lens.pos).out, 0)))
        Lengths(_name) == Body(read_fields(d, _name.pos, <<4, 4>>))
        Name(name_length) ==
            IF ~name_length.ok THEN Eof
            ELSE Lengths(read_string(d, name_length.pos, as_u64(name_length.val)))
        Header(signature) ==
            IF signature.val # BIF_V1_0_SIGNATURE
            THEN Failed("Wrong file type: ", signature.val)
            ELSE Name(read_u32(d, signature.pos))
    IN  Header(read_string(d, p, 8))

\* The blocks the adapter pulls from the underlying reader, from cursor p
\* on: per block two read_u32, then the zlib stream within the next
\* compressed_size bytes, inflated.  The list ends where fill_buffer
\* returns an error (no frame left, or a corrupt stream).
RECURSIVE bifc_blocks(_, _)
bifc_blocks(d, p) ==
    LET Inflated(h, z) ==
            IF ~z.ok THEN <<>>
            ELSE <<z.out>> \o bifc_blocks(d, h.pos + z.pos)
        Frame(h) ==
            IF ~h.ok THEN <<>>
            ELSE LET compressed_size == as_u64(u32_from_le_bytes(h.vals[2]))
                 IN  Inflated(h,
                         inflate(SubSeq(d, h.pos + 1,
                                        Min(Len(d), h.pos + compressed_size)), 0))
    IN  Frame(read_fields(d, p, <<4, 4>>))

\* BifcCompressedReader::new(reader) with the reader's cursor at p.
BifcCompressedReader_new(d, p) ==
    [kind |-> "bifc", blks |-> bifc_blocks(d, p), buffer |-> vd_new,
     nextBlock |-> 0, offset |-> 0]

\* BifcParser::import(reader) with the reader's cursor at p.
BifcParser_import(d, p) ==
    LET Record(bif) ==
            IF bif.status # "ok" THEN bif
            ELSE [status |-> "ok", type |-> "Bifc",
                  resources |-> bif.files \o bif.tilesets]
        Size(_uncompressed_size) ==
            IF ~_uncompressed_size.ok THEN Eof
            ELSE Record(bif_inflated_body(
                            BifcCompressedReader_new(d, _uncompressed_size.pos)))
        Header(signature) ==
            IF signature.val # BIFCV1_0_SIGNATURE
            THEN Failed("Wrong file type: ", signature.val)
            ELSE Size(read_u32(d, signature.pos))
    IN  Header(read_string(d, p, 8))

\* detect_biff_type(reader) with the reader's cursor at p.
detect_biff_type(d, p) ==
    LET Type(value) ==
            CASE value.val = BIFFV1_SIGNATURE ->
                    [status |-> "ok", type |-> "Biff", pos |-> value.pos]
              [] value.val = BIF_V1_0_SIGNATURE ->
                    [status |-> "ok", type |-> "Bif", pos |-> value.pos]
              [] value.val = BIFCV1_0_SIGNATURE ->
                    [status |-> "ok", type |-> "Bifc", pos |-> value.pos]
              [] OTHER -> Failed("Unsupported BIFF file: ", value.val)
    IN  Type(read_string(d, p, 8))

\* BifImporter::import(source) for a source of the bytes d with base offset
\* `base`: which sub-parser was called (none if detection failed), the
\* cursor it was called with, and what it returned.
BifImporter_import(d, base) ==
    LET Parse(t, start) ==
            CASE t.type = "Biff" ->
                    [parser |-> "BiffParser", start |-> start,
                     result |-> BiffParser_import(d, start)]
              [] t.type = "Bif" ->
                    [parser |-> "BifParser", start |-> start,
                     result |-> BifParser_import(d, start)]
              [] t.type = "Bifc" ->
                    [parser |-> "BifcParser", start |-> start,
                     result |-> BifcParser_import(d, start)]
        Detected(position, t) ==
            IF t.status # "ok"
            THEN [parser |-> "none", start |-> position, result |-> t]
            ELSE Parse(t, set_position(t.pos, position))
        Opened(position) == Detected(position, detect_biff_type(d, position))
    IN  Opened(reader(base))

\* Mutant of BifResources: the tilesets of a BIF V1.0 archive first.
BifResources_tilesets_first(r) ==
    IF r.type = "Bif" THEN r.tilesets \o r.files ELSE r.resources

\* The embedded resources of a parsed archive, files before tilesets.
BifResources(r) ==
    IF r.type = "Bif" THEN r.files \o r.tilesets ELSE r.resources

---------------------------------------------------------------------------
(* BIF files, written out from a description `f` of the archive: files
   (locator, offset, size, type code), tilesets (locator, offset, count,
   size, type code), gap (the bytes between the header and the entry
   table), name (of the BIF V1.0 wrapper), split (the sizes of the first
   blocks of the BIFC V1.0 wrapper; the rest of the body is the last). *)

BifFileEntry(e) ==
    to_le_bytes(e.locator, 4) \o to_le_bytes(e.offset, 4)
    \o to_le_bytes(e.size, 4) \o to_le_bytes(e.type, 2) \o <<0, 0>>

BifTilesetEntry(e) ==
    to_le_bytes(e.locator, 4) \o to_le_bytes(e.offset, 4)
    \o to_le_bytes(e.count, 4) \o to_le_bytes(e.size, 4)
    \o to_le_bytes(e.type, 2) \o <<0, 0>>

\* The plain BIFFV1 body; a negative gap declares an entry table that
\* starts inside the 20-byte header.
BiffBody(f) ==
    f.sig \o to_le_bytes(Len(f.files), 4) \o to_le_bytes(Len(f.tilesets), 4)
    \o to_le_bytes(20 + f.gap, 4) \o Repeat(0, f.gap)
    \o Flatten([i \in 1..Len(f.files) |-> BifFileEntry(f.files[i])])
    \o Flatten([i \in 1..Len(f.tilesets) |-> BifTilesetEntry(f.tilesets[i])])

\* The BIF V1.0 wrapper of the body: one zlib stream.
BifFile(f) ==
    LET z == zlib_stored(BiffBody(f), ZChunk)
    IN  BIF_V1_0_SIGNATURE \o to_le_bytes(Len(f.name), 4) \o f.name
        \o to_le_bytes(Len(BiffBody(f)), 4) \o to_le_bytes(Len(z), 4) \o z

\* `bytes` cut into blocks of the given sizes, the rest in a last block.
RECURSIVE SplitBlocks(_, _)
SplitBlocks(bytes, sizes) ==
    IF bytes = <<>> THEN <<>>
    ELSE IF sizes = <<>> THEN <<bytes>>
    ELSE LET n == Min(Head(sizes), Len(bytes))
         IN  <<SubSeq(bytes, 1, n)>>
             \o SplitBlocks(SubSeq(bytes, n + 1, Len(bytes)), Tail(sizes))

BifcBlock(blk) ==
    LET z == zlib_stored(blk, ZChunk)
    IN  to_le_bytes(Len(blk), 4) \o to_le_bytes(Len(z), 4) \o z

\* The BIFC V1.0 wrapper of the body: framed zlib blocks.
BifcFile(f) ==
    LET blks == SplitBlocks(BiffBody(f), f.split)
    IN  BIFCV1_0_SIGNATURE \o to_le_bytes(Len(BiffBody(f)), 4)
        \o Flatten([i \in 1..Len(blks) |-> BifcBlock(blks[i])])

---------------------------------------------------------------------------
(* SpecBif: one archive imported by each parser of the family: BiffParser
   on the plain body, BifParser on its BIF V1.0 wrapper, BifcParser on its
   BIFC V1.0 wrapper. *)

\* Bound: the entries of each table of an archive.
MaxEntries == 1
\* Bound: the bytes between the header and the entry table.
MaxGap == 1
\* Bound: the number of leading blocks of a BIFC wrapper.
MaxCuts == 2

\* The sizes of the leading blocks of a BIFC wrapper.
SplitSizes == {3, 5, 8}

\* A file entry whose locator has bits above bit 19, and a tileset entry.
BifFileEntries ==
    {[locator |-> 1048577, offset |-> 60, size |-> 5, type |-> 1000],
     [locator |-> 2146435073, offset |-> 65536, size |-> 70000, type |-> 7]}
BifTilesetEntries ==
    {[locator |-> 16384, offset |-> 70, count |-> 2, size |-> 5120,
      type |-> 1003]}

BifInputs ==
    {[sig |-> BIFFV1_SIGNATURE, files |-> files, tilesets |-> tilesets,
      gap |-> gap, name |-> <<97, 0>>, split |-> split] :
        files \in SeqsOf(BifFileEntries, 0, MaxEntries),
        tilesets \in SeqsOf(BifTilesetEntries, 0, MaxEntries),
        gap \in {-1} \cup 0..MaxGap,
        split \in SeqsOf(SplitSizes, 0, MaxCuts)}

BifInit ==
    /\ bifIn \in BifInputs
    /\ bifOut = [biff |-> NotRun, bif |-> NotRun, bifc |-> NotRun]
    /\ rdData = <<>> /\ rdPos = 0 /\ rdRes = Idle
    /\ blocks = <<>> /\ nextBlock = 0 /\ buffer = Idle
    /\ offset = 0 /\ delivered = <<>> /\ lastRead = Idle
    /\ bamIn = Idle /\ bamOut = Idle
    /\ keyIn = Idle /\ keyOut = Idle /\ fsPaths = Idle /\ fsOut = Idle
    /\ imgIn = Idle /\ imgOut = Idle /\ rowIn = Idle /\ rowOut = Idle
    /\ tyIn = Idle /\ tyOut = Idle

\* BiffParser::import(&mut DataSource::new(body).reader())
ImportBiff ==
    /\ bifOut.biff = NotRun
    /\ bifOut' = [bifOut EXCEPT !.biff = BiffParser_import(BiffBody(bifIn), reader(0))]
    /\ UNCHANGED <<bifIn, rdVars, bifcVars, bamVars,
                 keyVars, fsVars, imgVars, rowVars, tyVars>>

\* BifParser::import(&mut DataSource::new(bif_file).reader())
ImportBif ==
    /\ bifOut.bif = NotRun
    /\ bifOut' = [bifOut EXCEPT !.bif = BifParser_import(BifFile(bifIn), reader(0))]
    /\ UNCHANGED <<bifIn, rdVars, bifcVars, bamVars,
                 keyVars, fsVars, imgVars, rowVars, tyVars>>

\* BifcParser::import(&mut DataSource::new(bifc_file).reader())
ImportBifc ==
    /\ bifOut.bifc = NotRun
    /\ bifOut' = [bifOut EXCEPT !.bifc = BifcParser_import(BifcFile(bifIn), reader(0))]
    /\ UNCHANGED <<bifIn, rdVars, bifcVars, bamVars,
                 keyVars, fsVars, imgVars, rowVars, tyVars>>

BifNext == ImportBiff \/ ImportBif \/ ImportBifc

SpecBif ==
    /\ BifInit
    /\ [][BifNext]_vars

(* C4: for every plain BIFFV1 body with files_offset >= 20, the BIF V1.0
   wrapper and the BIFC V1.0 wrapper, for any split of the body into
   blocks, each parse to the same sequence of embedded resources as the
   body parsed by the plain BIFF parser. *)
C4_WrappersAgree ==
    bifIn.gap >= 0 /\ bifOut.biff.status = "ok" =>
        /\ bifOut.bif # NotRun =>
               /\ bifOut.bif.status = "ok"
               /\ BifResources(bifOut.bif) = BifResources(bifOut.biff)
        /\ bifOut.bifc # NotRun =>
               /\ bifOut.bifc.status = "ok"
               /\ BifResources(bifOut.bifc) = BifResources(bifOut.biff)

\* The entries the archive description f stores, as the parsers emit them.
ExpectedFile(e) ==
    [locator |-> e.locator % 1048576, offset |-> U32(e.offset),
     size |-> U32(e.size), type |-> ResourceType_from(e.type)]
ExpectedTileset(e) ==
    [locator |-> e.locator % 1048576, offset |-> U32(e.offset),
     count |-> U32(e.count), size |-> U32(e.size),
     type |-> ResourceType_from(e.type)]
ExpectedResources(f) ==
    [i \in 1..Len(f.files) |-> ExpectedFile(f.files[i])]
    \o [i \in 1..Len(f.tilesets) |-> ExpectedTileset(f.tilesets[i])]

\* The head of the inflated body as each compressed parser reads it from
\* its wrapper of bifIn: BifParser behind signature, name and the two
\* lengths, BifcParser behind signature and size.
BifHeadRead ==
    bif_inflated_header(
        CursorReader(inflate(BifFile(bifIn), 20 + Len(bifIn.name)).out, 0))
BifcHeadRead ==
    bif_inflated_header(BifcCompressedReader_new(BifcFile(bifIn), 12))

\* What a compressed archive parser owes the archive bifIn, `out` being its
\* result and h the head it read: an error and no archive for an entry
\* table declared inside the header; else files_offset - 20 bytes skipped,
\* the reader at decoded offset files_offset, and the first entry emitted
\* the one that starts there.
HeaderOffsetHonoured(out, h) ==
    IF bifIn.gap < 0
    THEN out.status = "err"
    ELSE /\ h.status = "ok"
         /\ h.skipped = bifIn.gap
         /\ r_position(h.r) = 20 + bifIn.gap
         /\ out.status = "ok" /\ BifResources(out) # <<>> =>
                BifResources(out)[1].locator = ExpectedResources(bifIn)[1].locator

(* C11: in BifParser::import and BifcParser::import an inflated header
   with files_offset < 20 gives a decode error and no archive; with
   files_offset >= 20 the parser skips exactly files_offset - 20 decoded
   bytes behind the 20-byte header, so that the first entry is read from
   decoded offset files_offset. *)
C11_HeaderOffset ==
    /\ bifOut.bif # NotRun => HeaderOffsetHonoured(bifOut.bif, BifHeadRead)
    /\ bifOut.bifc # NotRun => HeaderOffsetHonoured(bifOut.bifc, BifcHeadRead)

\* The BIF V1.0 parser alone honours the header offset.
BifHeaderOffsetHonoured ==
    bifOut.bif # NotRun => HeaderOffsetHonoured(bifOut.bif, BifHeadRead)

\* The archives the parsers of the family returned.
BifSucceeded == {o \in {bifOut.biff, bifOut.bif, bifOut.bifc} : o.status = "ok"}

(* C12: every entry an archive parser emits has the stored locator AND
   0xFFFFF, below 2^20, for locator; offset, size, count and type are the
   stored ones. *)
C12_LocatorMasked ==
    \A o \in BifSucceeded :
        /\ \A i \in 1..Len(BifResources(o)) : BifResources(o)[i].locator < 1048576
        /\ bifIn.gap >= 0 => BifResources(o) = ExpectedResources(bifIn)

\* A File entry has no count, a Tileset entry has one.
IsTileset(e) == "count" \in DOMAIN e

(* C13: a successful archive parser emits file_count + tileset_count
   entries, the first file_count of them File entries and the others
   Tileset entries, no Tileset before a File; the entries of the plain and
   of the zlib parser are those of the tables, in table order. *)
C13_FilesThenTilesets ==
    bifIn.gap >= 0 =>
        /\ \A o \in BifSucceeded :
               /\ Len(BifResources(o)) = Len(bifIn.files) + Len(bifIn.tilesets)
               /\ \A i \in 1..Len(BifResources(o)) :
                      IsTileset(BifResources(o)[i]) <=> i > Len(bifIn.files)
        /\ \A o \in BifSucceeded \ {bifOut.bifc} :
               \A i \in 1..Len(BifResources(o)) :
                   BifResources(o)[i] = ExpectedResources(bifIn)[i]

\* All three parsers have returned an archive with a file and a tileset.
C13_Witness ==
    /\ bifIn.gap >= 0 /\ bifIn.files # <<>> /\ bifIn.tilesets # <<>>
    /\ bifOut.biff.status = "ok" /\ bifOut.bif.status = "ok"
    /\ bifOut.bifc.status = "ok"
    /\ Len(BifResources(bifOut.bifc)) = 2 /\ Len(BifResources(bifOut.bif)) = 2

---------------------------------------------------------------------------
(* SpecDispatch: the dispatchers BamImporter::import and
   BifImporter::import, and the sub-parsers called directly, on a file of
   any format of the two families (or of none) that lies bamIn.pad bytes
   into its source.  bamOut holds the outcome of the last call of the BAM
   family, bifOut that of the BIF family. *)

BamKinds == {"BamV1", "BamV2", "BamC"}
BifKinds == {"Biff", "Bif", "Bifc"}
\* Files of neither family: one shorter than a signature, one with the
\* signature "BAM V3  ".
OtherKinds == {"short", "other"}
FileKinds == BamKinds \cup BifKinds \cup OtherKinds

BamParsers == {"BamV1Parser", "BamV2Parser", "BamcParser"}
BifParsers == {"BiffParser", "BifParser", "BifcParser"}

\* A BAM V2 file: one frame, one cycle, one data block.
BamV2Body ==
    BAM_V2_SIGNATURE \o to_le_bytes(1, 4) \o to_le_bytes(1, 4) \o to_le_bytes(1, 4)
    \o to_le_bytes(32, 4) \o to_le_bytes(44, 4) \o to_le_bytes(48, 4)
    \o to_le_bytes(2, 2) \o to_le_bytes(1, 2) \o to_le_bytes(1, 2)
    \o to_le_bytes(2, 2) \o to_le_bytes(0, 2) \o to_le_bytes(1, 2)
    \o to_le_bytes(1, 2) \o to_le_bytes(0, 2)
    \o to_le_bytes(7, 4) \o to_le_bytes(0, 4) \o to_le_bytes(0, 4)
    \o to_le_bytes(2, 4) \o to_le_bytes(1, 4) \o to_le_bytes(0, 4)
    \o to_le_bytes(0, 4)

BifDefault ==
    [sig |-> BIFFV1_SIGNATURE,
     files |-> <<[locator |-> 1048577, offset |-> 60, size |-> 5, type |-> 1000]>>,
     tilesets |-> <<>>, gap |-> 0, name |-> <<97, 0>>, split |-> <<8>>]

\* The bytes of the file of a kind.
FileOfKind(kind) ==
    CASE kind = "BamV1" -> BamBody(bamIn)
      [] kind = "BamV2" -> BamV2Body
      [] kind = "BamC" -> BamcFile(bamIn)
      [] kind = "Biff" -> BiffBody(bifIn)
      [] kind = "Bif" -> BifFile(bifIn)
      [] kind = "Bifc" -> BifcFile(bifIn)
      [] kind = "short" -> <<66, 65, 77>>
      [] kind = "other" ->
            BamBody([bamIn EXCEPT !.sig = <<66, 65, 77, 32, 86, 51, 32, 32>>])

\* The source the file of a kind lies in, bamIn.pad bytes from its start.
SourceOfKind(kind) == Repeat(0, bamIn.pad) \o FileOfKind(kind)

\* A sub-parser called by name with the reader's cursor at p.
RunParser(parser, d, p) ==
    CASE parser = "BamV1Parser" -> BamV1Parser_import(d, p, bamIn.overflow_checks)
      [] parser = "BamV2Parser" -> BamV2Parser_import(d, p)
      [] parser = "BamcParser" -> BamcParser_import(d, p, bamIn.overflow_checks)
      [] parser = "BiffParser" -> BiffParser_import(d, p)
      [] parser = "BifParser" -> BifParser_import(d, p)
      [] parser = "BifcParser" -> BifcParser_import(d, p)

NoCall == [op |-> "none"]

DispatchInit ==
    /\ bamIn \in BamPadFamily \cup {BamDefault}
    /\ bifIn = BifDefault
    /\ bamOut = NoCall
    /\ bifOut = NoCall
    /\ rdData = <<>> /\ rdPos = 0 /\ rdRes = Idle
    /\ blocks = <<>> /\ nextBlock = 0 /\ buffer = Idle
    /\ offset = 0 /\ delivered = <<>> /\ lastRead = Idle
    /\ keyIn = Idle /\ keyOut = Idle /\ fsPaths = Idle /\ fsOut = Idle
    /\ imgIn = Idle /\ imgOut = Idle /\ rowIn = Idle /\ rowOut = Idle
    /\ tyIn = Idle /\ tyOut = Idle

\* BamImporter::import(&DataSource::new_with_offset(source, pad))
DispatchBam ==
    /\ \E kind \in FileKinds :
          bamOut' = [op |-> "BamImporter", kind |-> kind,
                     out |-> BamImporter_import(SourceOfKind(kind), bamIn.pad,
                                                bamIn.overflow_checks)]
    /\ bifOut' = NoCall
    /\ UNCHANGED <<bamIn, bifIn, rdVars, bifcVars,
                 keyVars, fsVars, imgVars, rowVars, tyVars>>

\* BifImporter::import(&DataSource::new_with_offset(source, pad))
DispatchBif ==
    /\ \E kind \in FileKinds :
          bifOut' = [op |-> "BifImporter", kind |-> kind,
                     out |-> BifImporter_import(SourceOfKind(kind), bamIn.pad)]
    /\ bamOut' = NoCall
    /\ UNCHANGED <<bamIn, bifIn, rdVars, bifcVars,
                 keyVars, fsVars, imgVars, rowVars, tyVars>>

\* A BAM sub-parser called directly on a file of any kind.
SubParseBam ==
    /\ \E parser \in BamParsers, kind \in FileKinds :
          bamOut' = [op |-> parser, kind |-> kind,
                     out |-> [parser |-> parser, start |-> reader(bamIn.pad),
                              result |-> RunParser(parser, SourceOfKind(kind),
                                                   reader(bamIn.pad))]]
    /\ bifOut' = NoCall
    /\ UNCHANGED <<bamIn, bifIn, rdVars, bifcVars,
                 keyVars, fsVars, imgVars, rowVars, tyVars>>

\* A BIF sub-parser called directly on a file of any kind.
SubParseBif ==
    /\ \E parser \in BifParsers, kind \in FileKinds :
          bifOut' = [op |-> parser, kind |-> kind,
                     out |-> [parser |-> parser, start |-> reader(bamIn.pad),
                              result |-> RunParser(parser, SourceOfKind(kind),
                                                   reader(bamIn.pad))]]
    /\ bamOut' = NoCall
    /\ UNCHANGED <<bamIn, bifIn, rdVars, bifcVars,
                 keyVars, fsVars, imgVars, rowVars, tyVars>>

DispatchNext == DispatchBam \/ DispatchBif \/ SubParseBam \/ SubParseBif

SpecDispatch ==
    /\ DispatchInit
    /\ [][DispatchNext]_vars

\* The sub-parser that matches the signature of a kind.
ParserOfKind(kind) ==
    CASE kind = "BamV1" -> "BamV1Parser"
      [] kind = "BamV2" -> "BamV2Parser"
      [] kind = "BamC" -> "BamcParser"
      [] kind = "Biff" -> "BiffParser"
      [] kind = "Bif" -> "BifParser"
      [] kind = "Bifc" -> "BifcParser"
      [] OTHER -> "none"

\* The call `c` of a dispatcher on a file of its family went to the
\* matching sub-parser with the cursor at the reader's initial position, and
\* returned what that sub-parser returns from there.
DispatchedAtStart(c) ==
    /\ c.out.parser = ParserOfKind(c.kind)
    /\ c.out.start = reader(bamIn.pad)
    /\ c.out.result = RunParser(ParserOfKind(c.kind), SourceOfKind(c.kind),
                                reader(bamIn.pad))

(* C9: for each recognised signature the dispatchers call exactly the
   sub-parser that matches it, with the cursor set back to the reader's
   initial position p (never p + 8). *)
C9_DispatchRewinds ==
    /\ bamOut.op = "BamImporter" /\ bamOut.kind \in BamKinds =>
           DispatchedAtStart(bamOut)
    /\ bifOut.op = "BifImporter" /\ bifOut.kind \in BifKinds =>
           DispatchedAtStart(bifOut)

\* The BIF dispatcher, on a BIFC V1.0 file that lies behind other bytes,
\* called BifcParser.
C9_Witness ==
    /\ bifOut.op = "BifImporter" /\ bifOut.kind = "Bifc"
    /\ bamIn.pad > 0
    /\ bifOut.out.parser = "BifcParser"

\* The string read_string(8) decodes at the start of the file of a kind.
SignatureRead(kind) == SubSeq(FileOfKind(kind), 1, Min(8, Len(FileOfKind(kind))))

\* An error and nothing of a record.
IsError(result, msg, arg) == result = [status |-> "err", msg |-> msg, arg |-> arg]

(* C10: a dispatcher on a file whose first 8 bytes are no signature of its
   family returns an error and no record, and a sub-parser on a file with
   another format's signature returns the error "Wrong file type: " with
   the signature it read; no partial record is returned. *)
C10_WrongSignature ==
    /\ bamOut.op = "BamImporter" /\ bamOut.kind \notin BamKinds =>
           /\ bamOut.out.parser = "none"
           /\ IsError(bamOut.out.result, "Unsupported BAM file: ",
                      SignatureRead(bamOut.kind))
    /\ bifOut.op = "BifImporter" /\ bifOut.kind \notin BifKinds =>
           /\ bifOut.out.parser = "none"
           /\ IsError(bifOut.out.result, "Unsupported BIFF file: ",
                      SignatureRead(bifOut.kind))
    /\ bamOut.op \in BamParsers /\ ParserOfKind(bamOut.kind) # bamOut.op =>
           IsError(bamOut.out.result, "Wrong file type: ",
                   SignatureRead(bamOut.kind))
    /\ bifOut.op \in BifParsers /\ ParserOfKind(bifOut.kind) # bifOut.op =>
           IsError(bifOut.out.result, "Wrong file type: ",
                   SignatureRead(bifOut.kind))

\* The BIFF parser was given a BAM v1 body.
C10_Witness ==
    /\ bifOut.op = "BiffParser" /\ bifOut.kind = "BamV1"
    /\ bifOut.out.result.status = "err"
    /\ bifOut.out.result.arg = BAM_V1_SIGNATURE

---------------------------------------------------------------------------
(* CaseInsensitiveFS: fs.rs.  Strings and paths are sequences of code
   points; 47 is '/'. *)

\* char::to_lowercase on the code points of ASCII, Latin-1 and the letters
\* of WINDOWS_1252 above them; each has a single lower-case code point.
to_lowercase_char(c) ==
    IF (c >= 65 /\ c <= 90) \/ (c >= 192 /\ c <= 222 /\ c # 215) THEN c + 32
    ELSE IF c \in {338, 352, 381} THEN c + 1
    ELSE IF c = 376 THEN 255
    ELSE c

\* str::to_lowercase
to_lowercase(s) == [i \in 1..Len(s) |-> to_lowercase_char(s[i])]

\* str::starts_with("/")
starts_with_slash(s) == s # <<>> /\ s[1] = 47

\* The absolute path of the entry with the real relative path rel.
AbsolutePath(root, rel) == root \o <<47>> \o rel

\* list_real_entries_recursive(root) on a directory tree `disk`, a set of
\* entries [rel, is_file]: every entry is inserted under its lower-cased
\* relative path with its absolute path as value.  Of entries whose names
\* differ in case only the one inserted last stays, and read_dir fixes no
\* order: the result is any of these maps.
list_real_entries_recursive(root, disk) ==
    LET keys == {to_lowercase(e.rel) : e \in disk}
    IN  {[k \in keys |-> AbsolutePath(root, m[k].rel)] :
            m \in {c \in [keys -> disk] :
                      \A k \in keys : to_lowercase(c[k].rel) = k}}

\* CaseInsensitiveFS::new(root): the snapshots it can return; `disk` is the
\* tree it was taken from.
CaseInsensitiveFS_new(root, disk) ==
    {[root |-> root, paths |-> paths, disk |-> disk] :
        paths \in list_real_entries_recursive(root, disk)}

\* Mutant of get_path_opt: the query is looked up as it is written.
get_path_opt_as_written(fs, path) ==
    LET Lookup(key) ==
            IF key \in DOMAIN fs.paths
            THEN [found |-> TRUE, path |-> fs.paths[key]]
            ELSE [found |-> FALSE]
    IN  Lookup(IF starts_with_slash(path) THEN Tail(path) ELSE path)

\* CaseInsensitiveFS::get_path_opt(path)
get_path_opt(fs, path) ==
    LET Lookup(key) ==
            IF key \in DOMAIN fs.paths
            THEN [found |-> TRUE, path |-> fs.paths[key]]
            ELSE [found |-> FALSE]
        Strip(lowered) ==
            Lookup(IF starts_with_slash(lowered) THEN Tail(lowered) ELSE lowered)
    IN  Strip(to_lowercase(path))

\* CaseInsensitiveFS::get_path(path)
get_path(fs, path) ==
    LET Result(opt) ==
            IF opt.found THEN [status |-> "ok", path |-> opt.path]
            ELSE [status |-> "err", kind |-> "NotFound",
                  msg |-> "File not found: ", arg |-> path]
    IN  Result(get_path_opt(fs, path))

\* Path::is_file on an absolute path of the tree.
is_file(fs, path) ==
    \E e \in fs.disk : e.is_file /\ AbsolutePath(fs.root, e.rel) = path

---------------------------------------------------------------------------
(* SpecFs: a snapshot of a directory tree, queried through get_path_opt
   and get_path with any spelling of its paths. *)

\* The root of the tree: "/g".
FsRoot == <<47, 103>>

\* The entries a tree can hold: the files "Ab" and "aB" (the same name but
\* for case), the directory "D" and the file "D/é" in it.
FsFiles == {[rel |-> <<65, 98>>, is_file |-> TRUE],
            [rel |-> <<97, 66>>, is_file |-> TRUE]}
FsDir == [rel |-> <<68>>, is_file |-> FALSE]
FsInDir == [rel |-> <<68, 47, 233>>, is_file |-> TRUE]
FsTrees ==
    {files \cup dir : files \in SUBSET FsFiles,
                      dir \in {{}, {FsDir}, {FsDir, FsInDir}}}

\* The upper-case and the lower-case spelling of a code point.
to_uppercase_char(c) ==
    IF (c >= 97 /\ c <= 122) \/ (c >= 224 /\ c <= 254 /\ c # 247) THEN c - 32
    ELSE c
CaseSpellings(c) == {to_lowercase_char(c), to_uppercase_char(c)}

\* Every upper/lower-case variant of the path p.
CaseVariants(p) ==
    {v \in [1..Len(p) -> UNION {CaseSpellings(p[i]) : i \in 1..Len(p)}] :
        \A i \in 1..Len(p) : v[i] \in CaseSpellings(p[i])}

\* The variants of p, each with and without one leading '/'.
QueriesFor(p) ==
    CaseVariants(p) \cup {<<47>> \o v : v \in CaseVariants(p)}

\* The queries: spellings of the paths of the trees, of the path "zz" no
\* tree holds, and a path behind two slashes.
FsQueries ==
    UNION {QueriesFor(p) : p \in {<<97, 98>>, <<100>>, <<100, 47, 233>>,
                                  <<122, 122>>}}
    \cup {<<47, 47, 97, 98>>}

NoQuery == [op |-> "none"]

FsInit ==
    /\ fsPaths \in UNION {CaseInsensitiveFS_new(FsRoot, disk) : disk \in FsTrees}
    /\ fsOut = NoQuery
    /\ rdData = <<>> /\ rdPos = 0 /\ rdRes = Idle
    /\ blocks = <<>> /\ nextBlock = 0 /\ buffer = Idle
    /\ offset = 0 /\ delivered = <<>> /\ lastRead = Idle
    /\ bamIn = Idle /\ bamOut = Idle /\ bifIn = Idle /\ bifOut = Idle
    /\ keyIn = Idle /\ keyOut = Idle
    /\ imgIn = Idle /\ imgOut = Idle /\ rowIn = Idle /\ rowOut = Idle
    /\ tyIn = Idle /\ tyOut = Idle

\* fs.get_path_opt(query); the snapshot is borrowed immutably.
GetPathOpt ==
    \E query \in FsQueries :
        /\ fsOut' = [op |-> "get_path_opt", query |-> query,
                     out |-> get_path_opt(fsPaths, query)]
        /\ fsPaths' = fsPaths
        /\ UNCHANGED <<rdVars, bifcVars, bamVars, bifVars, keyVars, imgVars,
                       rowVars, tyVars>>

\* fs.get_path(query)
GetPath ==
    \E query \in FsQueries :
        /\ fsOut' = [op |-> "get_path", query |-> query,
                     out |-> get_path(fsPaths, query)]
        /\ fsPaths' = fsPaths
        /\ UNCHANGED <<rdVars, bifcVars, bamVars, bifVars, keyVars, imgVars,
                       rowVars, tyVars>>

FsNext == GetPathOpt \/ GetPath

SpecFs ==
    /\ FsInit
    /\ [][FsNext]_vars

\* The keys of the snapshot the last query is a spelling of.
KeysQueried == {p \in DOMAIN fsPaths.paths : fsOut.query \in QueriesFor(p)}

(* C17: a query with any upper/lower-case variant of an indexed path p,
   with or without one leading '/', returns the absolute path stored under
   p; get_path fails with NotFound exactly when get_path_opt finds nothing;
   the snapshot is the one taken of the tree, whatever was queried. *)
C17_CaseInsensitiveLookup ==
    /\ fsPaths.paths \in list_real_entries_recursive(fsPaths.root, fsPaths.disk)
    /\ fsOut.op = "get_path_opt" =>
           \A p \in KeysQueried :
               fsOut.out = [found |-> TRUE, path |-> fsPaths.paths[p]]
    /\ fsOut.op = "get_path" =>
           /\ \A p \in KeysQueried :
                  fsOut.out = [status |-> "ok", path |-> fsPaths.paths[p]]
           /\ fsOut.out.status = "err" <=> ~get_path_opt(fsPaths, fsOut.query).found
           /\ fsOut.out.status = "err" => fsOut.out.kind = "NotFound"

\* The file stored as "D/é" was found by the query "/d/É", and a path
\* outside the tree was not.
C17_Witness ==
    /\ fsOut.op = "get_path_opt" /\ fsOut.query = <<47, 100, 47, 201>>
    /\ fsOut.out.found
    /\ fsOut.out.path = AbsolutePath(FsRoot, <<68, 47, 233>>)

---------------------------------------------------------------------------
(* KEY catalog: key.rs, read through the Reader of io.rs over the file the
   snapshot names. *)

\* Option: Some(x) and None.
Some(x) == <<x>>
None == <<>>

\* char::is_whitespace on the code points WINDOWS_1252 decodes to.
is_whitespace(c) == (c >= 9 /\ c <= 13) \/ c = 32 \/ c = 160

\* str::trim_start, str::trim_end, str::trim
RECURSIVE trim_start(_)
trim_start(s) ==
    IF s # <<>> /\ is_whitespace(s[1]) THEN trim_start(Tail(s)) ELSE s
RECURSIVE trim_end(_)
trim_end(s) ==
    IF s # <<>> /\ is_whitespace(s[Len(s)])
    THEN trim_end(SubSeq(s, 1, Len(s) - 1)) ELSE s
trim(s) == trim_end(trim_start(s))

\* str::replace(from, to): every occurrence of `from`, left to right,
\* without overlap.
RECURSIVE str_replace(_, _, _)
str_replace(s, from, to) ==
    IF Len(s) < Len(from) THEN s
    ELSE IF SubSeq(s, 1, Len(from)) = from
    THEN to \o str_replace(SubSeq(s, Len(from) + 1, Len(s)), from, to)
    ELSE <<s[1]>> \o str_replace(Tail(s), from, to)

\* The strings of the parser.
KEY_SIGNATURE == <<75, 69, 89>>
KEY_VERSION == <<86, 49>>
DOT_BIF == <<46, 98, 105, 102>>
DOT_CBF == <<46, 99, 98, 102>>

\* constants::FILE_FOLDERS: "", "data/", "cache/", "cd1/" ... "cd7/".
FILE_FOLDERS ==
    <<<<>>, <<100, 97, 116, 97, 47>>, <<99, 97, 99, 104, 101, 47>>>>
    \o [n \in 1..7 |-> <<99, 100, 48 + n, 47>>]

\* BifDirectory::from(bit)
BifDirectory_from(bit) ==
    IF bit <= 8
    THEN [variant |-> <<"Root", "Cache", "Cd1", "Cd2", "Cd3", "Cd4", "Cd5",
                        "Cd6", "Cd7">>[bit + 1]]
    ELSE [variant |-> "Unknown", code |-> bit]

\* a - b on u32: the difference modulo 2^32, and whether it underflowed.
u32_sub(a, b) ==
    LET Halves(lo, hi) ==
            [overflow |-> hi < 0,
             val |-> [lo |-> lo % 65536, hi |-> hi % 65536]]
    IN  Halves(a.lo - b.lo,
               a.hi - b.hi - (IF a.lo < b.lo THEN 1 ELSE 0))

\* a * k on u32 for a small k: the product modulo 2^32, and whether it
\* overflowed.
u32_mul(a, k) ==
    LET Halves(lo, hi) ==
            [overflow |-> hi >= 65536,
             val |-> [lo |-> lo % 65536, hi |-> hi % 65536]]
    IN  Halves(a.lo * k, a.hi * k + (a.lo * k) \div 65536)

\* The mutant of find_bif_file looks in the folders from the last to the
\* first.
RECURSIVE find_bif_file_backwards(_, _, _)
find_bif_file_backwards(fs, file_name, i) ==
    IF i > Len(FILE_FOLDERS) THEN None
    ELSE LET Hit(opt) ==
                 IF opt.found /\ is_file(fs, opt.path) THEN Some(opt.path)
                 ELSE find_bif_file_backwards(fs, file_name, i + 1)
         IN  Hit(get_path_opt(fs,
                     FILE_FOLDERS[Len(FILE_FOLDERS) + 1 - i] \o file_name))

\* find_bif_file(fs, file_name), from folder i on.
RECURSIVE find_bif_file(_, _, _)
find_bif_file(fs, file_name, i) ==
    IF i > Len(FILE_FOLDERS) THEN None
    ELSE LET Hit(opt) ==
                 IF opt.found /\ is_file(fs, opt.path) THEN Some(opt.path)
                 ELSE find_bif_file(fs, file_name, i + 1)
         IN  Hit(get_path_opt(fs, FILE_FOLDERS[i] \o file_name))

\* The file name of a BIF entry as stored: trimmed, lower-cased, '\' and
\* ':' turned into '/', one leading '/' dropped.
bif_file_name(stored) ==
    LET Stripped(name) == IF starts_with_slash(name) THEN Tail(name) ELSE name
    IN  Stripped(str_replace(str_replace(to_lowercase(trim(stored)),
                                         <<92>>, <<47>>),
                             <<58>>, <<47>>))

\* BifEntry::read_entry(fs, reader, index, is_demo) with the cursor at p;
\* `at` is p and pos the cursor the call leaves.
BifEntry_read_entry(fs, d, p, index, is_demo, overflow_checks) ==
    LET Located(size, f, file_name, bif_file) ==
            [status |-> "ok", pos |-> set_position(f.pos, f.pos),
             entry |-> [index |-> index,
                        file_name |-> file_name,
                        file_size |-> IF is_demo THEN None ELSE Some(size.val),
                        file |-> IF bif_file # None THEN bif_file
                                 ELSE find_bif_file(fs,
                                          str_replace(file_name, DOT_BIF, DOT_CBF),
                                          1),
                        directory |->
                            BifDirectory_from(u16_from_le_bytes(f.vals[3])),
                        at |-> p]]
        Named(size, f, file_name) ==
            Located(size, f, file_name, find_bif_file(fs, file_name, 1))
        Name(size, f, stored) ==
            IF ~stored.ok THEN Eof
            ELSE Named(size, f, bif_file_name(stored.val))
        Fields(size, f) ==
            IF ~f.ok THEN Eof
            ELSE LET string_offset == as_u64(u32_from_le_bytes(f.vals[1]))
                     string_length == u16_from_le_bytes(f.vals[2])
                 IN  IF string_length = 0 /\ overflow_checks
                     THEN Panicked("attempt to subtract with overflow")
                     ELSE Name(size, f,
                              read_string(d, set_position(f.pos, string_offset),
                                  IF string_length = 0 THEN Len(d)
                                  ELSE string_length - 1))
        Size(size) ==
            IF ~size.ok THEN Eof
            ELSE Fields(size, read_fields(d, size.pos, <<4, 2, 2>>))
    IN  Size(IF is_demo THEN [ok |-> TRUE, val |-> NoValue, pos |-> p]
             ELSE read_u32(d, p))

\* `for i in 0..bif_size { bif_entries.push(BifEntry::read_entry(..)?) }`
RECURSIVE key_bif_entries(_, _, _, _, _, _, _, _)
key_bif_entries(fs, d, p, i, bif_size, is_demo, overflow_checks, acc) ==
    IF i = bif_size THEN [status |-> "ok", entries |-> acc, pos |-> p]
    ELSE LET Pushed(e) ==
                 IF e.status # "ok" THEN e
                 ELSE key_bif_entries(fs, d, e.pos, i + 1, bif_size, is_demo,
                                      overflow_checks, Append(acc, e.entry))
         IN  Pushed(BifEntry_read_entry(fs, d, p, i, is_demo, overflow_checks))

\* ResourceEntry::read_entry(reader) with the cursor at p.
ResourceEntry_read_entry(d, p) ==
    LET Entry(resource_name, f) ==
            IF ~f.ok THEN Eof
            ELSE [status |-> "ok", pos |-> f.pos,
                  entry |-> [resource_name |-> trim(resource_name.val),
                             type |-> ResourceType_from(
                                          u16_from_le_bytes(f.vals[1])),
                             locator |-> u32_from_le_bytes(f.vals[2])]]
        Name(resource_name) ==
            IF ~resource_name.ok THEN Eof
            ELSE Entry(resource_name,
                       read_fields(d, resource_name.pos, <<2, 4>>))
    IN  Name(read_string(d, p, 8))

\* Mutant of the resource loop: it stops one entry short.
RECURSIVE key_resource_entries_one_short(_, _, _, _)
key_resource_entries_one_short(d, p, left, acc) ==
    IF left <= 1 THEN [status |-> "ok", entries |-> acc, pos |-> p]
    ELSE LET Pushed(e) ==
                 IF e.status # "ok" THEN e
                 ELSE key_resource_entries_one_short(d, e.pos, left - 1,
                                                     Append(acc, e.entry))
         IN  Pushed(ResourceEntry_read_entry(d, p))

\* `for _ in 0..resources_size { push(ResourceEntry::read_entry(reader)?) }`
RECURSIVE key_resource_entries(_, _, _, _)
key_resource_entries(d, p, left, acc) ==
    IF left = 0 THEN [status |-> "ok", entries |-> acc, pos |-> p]
    ELSE LET Pushed(e) ==
                 IF e.status # "ok" THEN e
                 ELSE key_resource_entries(d, e.pos, left - 1,
                                           Append(acc, e.entry))
         IN  Pushed(ResourceEntry_read_entry(d, p))

\* The test for the demo variant of Key::import: two read_u32_at, the
\* second only if the first relation holds; a subtraction or a product that
\* leaves u32 aborts a build with overflow checks and wraps in one without.
key_is_demo(d, bif_size, bif_offset, overflow_checks) ==
    LET Overflow == Panicked("arithmetic overflow")
        Second(s1, m12) ==
            IF (s1.overflow \/ m12.overflow) /\ overflow_checks THEN Overflow
            ELSE [status |-> "ok", val |-> s1.val # m12.val]
        V1(v1) ==
            IF ~v1.ok THEN Eof
            ELSE IF u32_sub(v1.val, bif_offset).overflow /\ overflow_checks
            THEN Overflow
            ELSE Second(u32_sub(v1.val, bif_offset), u32_mul(bif_size, 12))
        First(s0, m8) ==
            IF (s0.overflow \/ m8.overflow) /\ overflow_checks THEN Overflow
            ELSE IF s0.val # m8.val THEN [status |-> "ok", val |-> FALSE]
            ELSE V1(read_u32(d, as_u64(bif_offset) + 4))
        V0(v0) ==
            IF ~v0.ok THEN Eof
            ELSE IF u32_sub(v0.val, bif_offset).overflow /\ overflow_checks
            THEN Overflow
            ELSE First(u32_sub(v0.val, bif_offset), u32_mul(bif_size, 8))
    IN  V0(read_u32(d, as_u64(bif_offset)))

\* Key::import(fs, file_name); `d` holds the bytes of the file the snapshot
\* names.  The result keeps the layout decision is_demo.
Key_import(fs, file_name, d, overflow_checks) ==
    LET Record(path, signature, version, h, demo, bifs, res) ==
            IF res.status # "ok" THEN res
            ELSE [status |-> "ok",
                  file |-> path,
                  signature |-> signature,
                  version |-> version,
                  resources_offset |-> u32_from_le_bytes(h.vals[4]),
                  bif_offset |-> u32_from_le_bytes(h.vals[3]),
                  bif_entries |-> bifs.entries,
                  resource_entries |-> res.entries,
                  is_demo |-> demo.val]
        Resources(path, signature, version, h, demo, bifs) ==
            IF bifs.status # "ok" THEN bifs
            ELSE Record(path, signature, version, h, demo, bifs,
                     key_resource_entries(d,
                         set_position(bifs.pos,
                                      as_u64(u32_from_le_bytes(h.vals[4]))),
                         as_u64(u32_from_le_bytes(h.vals[2])), <<>>))
        Bifs(path, signature, version, h, demo) ==
            IF demo.status # "ok" THEN demo
            ELSE Resources(path, signature, version, h, demo,
                     key_bif_entries(fs, d,
                         set_position(0, as_u64(u32_from_le_bytes(h.vals[3]))),
                         0, as_u64(u32_from_le_bytes(h.vals[1])), demo.val,
                         overflow_checks, <<>>))
        Demo(path, signature, version, h) ==
            IF ~h.ok THEN Eof
            ELSE Bifs(path, signature, version, h,
                      key_is_demo(d, u32_from_le_bytes(h.vals[1]),
                                  u32_from_le_bytes(h.vals[3]), overflow_checks))
        Header(path, signature, version) ==
            IF ~(trim(signature.val) = KEY_SIGNATURE
                 /\ trim(version.val) = KEY_VERSION)
            THEN Failed("Wrong file type", <<>>)
            ELSE Demo(path, trim(signature.val), trim(version.val),
                      read_fields(d, version.pos, <<4, 4, 4, 4>>))
        Version(path, signature) ==
            Header(path, signature, read_string(d, signature.pos, 4))
        Opened(key_file_path) ==
            IF key_file_path.status # "ok" THEN key_file_path
            ELSE Version(key_file_path.path, read_string(d, 0, 4))
    IN  Opened(get_path(fs, file_name))

---------------------------------------------------------------------------
(* SpecKey: Key::import on KEY files written in either layout, over trees
   that hold the BIF files in different folders. *)

\* The most BIF entries of a generated KEY file.
MaxBifs == 2

\* The root of the game: "/g"; the catalog is "c.key", asked for as "C.KEY".
KeyRoot == <<47, 103>>
KeyFileRel == <<99, 46, 107, 101, 121>>
KeyFileQuery == <<67, 46, 75, 69, 89>>

\* The file names the entries store, each with the name it stands for:
\* "A.bif", ":a.bif" and "data\A.BIF ".
KeyNames ==
    {[stored |-> <<65, 46, 98, 105, 102>>,
      norm |-> <<97, 46, 98, 105, 102>>],
     [stored |-> <<58, 97, 46, 98, 105, 102>>,
      norm |-> <<97, 46, 98, 105, 102>>],
     [stored |-> <<100, 97, 116, 97, 92, 65, 46, 66, 73, 70, 32>>,
      norm |-> <<100, 97, 116, 97, 47, 97, 46, 98, 105, 102>>]}

\* location and file_size of the entries: a file_size below bif_offset, one
\* equal to bif_offset + 8, and a large one.
KeyPlaces ==
    {[location |-> 0, file_size |-> 5],
     [location |-> 1, file_size |-> 32],
     [location |-> 9, file_size |-> 70000]}

KeyBifs ==
    {[stored |-> n.stored, norm |-> n.norm, location |-> pl.location,
      file_size |-> pl.file_size, string_length |-> Len(n.stored) + 1] :
        n \in KeyNames, pl \in KeyPlaces}

\* The trees: the BIF files in the folders of the search, as .bif, as .cbf
\* or as a directory of that name.
KeyEntry(rel, is_a_file) == [rel |-> rel, is_file |-> is_a_file]
A_BIF == <<97, 46, 98, 105, 102>>
A_CBF == <<97, 46, 99, 98, 102>>
KeyTrees ==
    {{},
     {KeyEntry(A_BIF, TRUE)},
     {KeyEntry(FILE_FOLDERS[2] \o A_BIF, TRUE),
      KeyEntry(FILE_FOLDERS[5] \o <<65, 46, 66, 73, 70>>, TRUE)},
     {KeyEntry(A_CBF, TRUE), KeyEntry(FILE_FOLDERS[4] \o A_BIF, TRUE)},
     {KeyEntry(A_BIF, FALSE), KeyEntry(FILE_FOLDERS[3] \o <<65, 46, 67, 66, 70>>, TRUE),
      KeyEntry(FILE_FOLDERS[10] \o A_CBF, TRUE)},
     {KeyEntry(FILE_FOLDERS[2] \o FILE_FOLDERS[2] \o A_BIF, TRUE),
      KeyEntry(FILE_FOLDERS[2] \o A_CBF, TRUE)}}

\* "KEY ", "V1  ", and other signatures and versions: "KEY" and a NUL,
\* " KEY", "BIFF", "key "; "V1" and two NULs, "V2  ", "V1.0".
KEY_MAGIC == <<75, 69, 89, 32>>
V1_MAGIC == <<86, 49, 32, 32>>
KeySignatures ==
    {KEY_MAGIC, <<75, 69, 89, 0>>, <<32, 75, 69, 89>>, <<66, 73, 70, 70>>,
     <<107, 101, 121, 32>>}
KeyVersions == {V1_MAGIC, <<86, 49, 0, 0>>, <<86, 50, 32, 32>>, <<86, 49, 46, 48>>}

\* The resource entries of the generated files: "AB" of type 0x3E8 and
\* "SPWI112" of type 0x3EE.
KeyResources ==
    <<[name |-> <<65, 66, 32, 32, 32, 32, 32, 32>>, type |-> 1000,
       locator |-> 1048577],
      [name |-> <<83, 80, 87, 73, 49, 49, 50, 0>>, type |-> 1006,
       locator |-> 5]>>

\* The bytes of the names of the entries from the i-th on, each ended by a
\* NUL.
RECURSIVE KeyNameBytes(_, _)
KeyNameBytes(bifs, i) ==
    IF i > Len(bifs) THEN <<>>
    ELSE bifs[i].stored \o <<0>> \o KeyNameBytes(bifs, i + 1)

\* bif_offset of the generated files: the entries follow the header.
KeyBifOffset == 24

\* A KEY file: the header, the BIF entries at bif_offset = 24 in the layout
\* f.demo chooses, their names, the resource entries.
KeyFile(f) ==
    LET entry_size == IF f.demo THEN 8 ELSE 12
        names_at == KeyBifOffset + Len(f.bifs) * entry_size
        names == KeyNameBytes(f.bifs, 1)
        name_at(i) == names_at + Len(names) - Len(KeyNameBytes(f.bifs, i))
    IN  f.signature \o f.version
        \o to_le_bytes(f.bif_count, 4) \o to_le_bytes(f.resource_count, 4)
        \o to_le_bytes(KeyBifOffset, 4) \o to_le_bytes(names_at + Len(names), 4)
        \o Flatten([i \in 1..Len(f.bifs) |->
               (IF f.demo THEN <<>> ELSE to_le_bytes(f.bifs[i].file_size, 4))
               \o to_le_bytes(name_at(i), 4)
               \o to_le_bytes(f.bifs[i].string_length, 2)
               \o to_le_bytes(f.bifs[i].location, 2)])
        \o names
        \o Flatten([i \in 1..Len(f.resources) |->
               f.resources[i].name \o to_le_bytes(f.resources[i].type, 2)
               \o to_le_bytes(f.resources[i].locator, 4)])

\* A KEY file in a tree, to be imported by a build with or without
\* overflow checks.
KeyInput(signature, version, demo, bifs, bif_count, resource_count, tree, has_key, checks) ==
    [signature |-> signature, version |-> version, demo |-> demo,
     bifs |-> bifs, bif_count |-> bif_count,
     resources |-> KeyResources, resource_count |-> resource_count,
     disk |-> tree \cup (IF has_key THEN {KeyEntry(KeyFileRel, TRUE)} ELSE {}),
     overflow_checks |-> checks]

\* The smallest bif_count whose product with 8 does not fit a u32: 2^29.
KeyHugeCount == 536870912

\* Well-formed files of both layouts in every tree; files with every
\* signature and version; files that declare more or fewer entries than
\* they hold; a tree without the catalog; files with an entry whose
\* string_length is 0; files that declare 2^29 entries.
KeyInputs ==
    {KeyInput(KEY_MAGIC, V1_MAGIC, demo, bifs, Len(bifs), 2, tree, TRUE, checks) :
        demo \in BOOLEAN, bifs \in SeqsOf(KeyBifs, 0, MaxBifs),
        tree \in KeyTrees, checks \in BOOLEAN}
    \cup {KeyInput(sig, ver, demo, <<b>>, 1, 2, {}, has_key, FALSE) :
            sig \in KeySignatures, ver \in KeyVersions, demo \in BOOLEAN,
            b \in {x \in KeyBifs : x.location = 1 /\ Len(x.stored) = 5},
            has_key \in BOOLEAN}
    \cup {KeyInput(KEY_MAGIC, V1_MAGIC, demo, <<b>>, bif_count, resource_count,
                   {}, TRUE, FALSE) :
            demo \in BOOLEAN, bif_count \in 0..2, resource_count \in 0..3,
            b \in {x \in KeyBifs : x.location = 9 /\ Len(x.stored) = 5}}
    \cup {KeyInput(KEY_MAGIC, V1_MAGIC, demo, <<[b EXCEPT !.string_length = 0]>>,
                   1, 2, {}, TRUE, checks) :
            demo \in BOOLEAN, checks \in BOOLEAN,
            b \in {x \in KeyBifs : x.location = 1 /\ Len(x.stored) = 5}}
    \cup {KeyInput(KEY_MAGIC, V1_MAGIC, demo, <<[b EXCEPT !.file_size = file_size]>>,
                   KeyHugeCount, 2, {}, TRUE, checks) :
            demo \in BOOLEAN, checks \in BOOLEAN,
            file_size \in {KeyBifOffset, KeyBifOffset + 8},
            b \in {x \in KeyBifs : x.location = 1 /\ Len(x.stored) = 5}}

KeyInit ==
    /\ keyIn \in KeyInputs
    /\ keyOut = NotRun
    /\ fsPaths \in UNION {CaseInsensitiveFS_new(KeyRoot, f.disk) : f \in {keyIn}}
    /\ fsOut = Idle
    /\ rdData = <<>> /\ rdPos = 0 /\ rdRes = Idle
    /\ blocks = <<>> /\ nextBlock = 0 /\ buffer = Idle
    /\ offset = 0 /\ delivered = <<>> /\ lastRead = Idle
    /\ bamIn = Idle /\ bamOut = Idle /\ bifIn = Idle /\ bifOut = Idle
    /\ imgIn = Idle /\ imgOut = Idle /\ rowIn = Idle /\ rowOut = Idle
    /\ tyIn = Idle /\ tyOut = Idle

\* Key::import(&fs, "C.KEY")
ImportKey ==
    /\ keyOut = NotRun
    /\ keyOut' = Key_import(fsPaths, KeyFileQuery, KeyFile(keyIn),
                            keyIn.overflow_checks)
    /\ UNCHANGED <<keyIn, fsVars, rdVars, bifcVars, bamVars, bifVars, imgVars,
                   rowVars, tyVars>>

KeyNext == ImportKey

SpecKey ==
    /\ KeyInit
    /\ [][KeyNext]_vars

\* The catalog is in the tree.
KeyOnDisk == \E e \in keyIn.disk : e.rel = KeyFileRel

\* Signature and version of the file, trimmed, are "KEY" and "V1".
KeyMagicValid ==
    /\ keyIn.signature \in {KEY_MAGIC, <<75, 69, 89, 0>>, <<32, 75, 69, 89>>}
    /\ keyIn.version \in {V1_MAGIC, <<86, 49, 0, 0>>}

(* C14: Key::import succeeds only on a file whose trimmed signature is
   "KEY" and whose trimmed version is "V1", any other file of the tree is
   refused with an error; when it succeeds it has produced as many BIF
   entries as bif_count declares and as many resource entries as
   resource_count declares. *)
C14_CountsAsDeclared ==
    keyOut # NotRun =>
        /\ keyOut.status = "ok" =>
               /\ KeyMagicValid
               /\ keyOut.signature = KEY_SIGNATURE
               /\ keyOut.version = KEY_VERSION
               /\ Len(keyOut.bif_entries) = keyIn.bif_count
               /\ Len(keyOut.resource_entries) = keyIn.resource_count
        /\ KeyOnDisk /\ ~KeyMagicValid =>
               IsError(keyOut, "Wrong file type", <<>>)

\* Two BIF entries and two resource entries were declared and produced,
\* the second resource being "SPWI112" of type Spl.
C14_Witness ==
    /\ keyOut # NotRun /\ keyOut.status = "ok"
    /\ keyIn.bif_count = 2 /\ Len(keyOut.bif_entries) = 2
    /\ Len(keyOut.resource_entries) = 2
    /\ keyOut.resource_entries[2].resource_name = <<83, 80, 87, 73, 49, 49, 50>>

\* A file that declares one resource more than it holds was refused.
C14_WitnessShort ==
    /\ keyOut # NotRun /\ keyIn.resource_count = 3
    /\ keyOut = Eof

\* The u32 at bif_offset and at bif_offset + 4 as integers.
KeyV0 == as_u64(u32_from_le_bytes(SubSeq(KeyFile(keyIn), 25, 28)))
KeyV1 == as_u64(u32_from_le_bytes(SubSeq(KeyFile(keyIn), 29, 32)))

\* The test for the demo layout, on the integers.
KeyDemoTest ==
    /\ KeyV0 - KeyBifOffset = keyIn.bif_count * 8
    /\ KeyV1 - KeyBifOffset # keyIn.bif_count * 12

\* The layout of the result: every entry was read at bif_offset + i * size
\* and has a file_size exactly in the 12-byte layout.
KeyLayoutIs(demo) ==
    /\ keyOut.is_demo = demo
    /\ \A i \in 1..Len(keyOut.bif_entries) :
           /\ keyOut.bif_entries[i].at
                  = KeyBifOffset + (i - 1) * (IF demo THEN 8 ELSE 12)
           /\ keyOut.bif_entries[i].file_size = None <=> demo

(* C15: with v0 the u32 at bif_offset and v1 the u32 at bif_offset + 4,
   Key::import decides the layout for every file with a valid header: the
   8-byte demo layout, without file_size, exactly when
   v0 - bif_offset = bif_count * 8 and v1 - bif_offset # bif_count * 12,
   the 12-byte layout with file_size otherwise; the i-th entry is read at
   bif_offset + i * 8 or bif_offset + i * 12. *)
C15_DemoLayout ==
    keyOut # NotRun /\ KeyOnDisk /\ KeyMagicValid =>
        /\ keyOut.status # "panic"
        /\ keyOut.status = "ok" => KeyLayoutIs(KeyDemoTest)

\* C15 for the builds without overflow checks.
KeyLayoutWhenWrapping ==
    keyOut # NotRun /\ KeyOnDisk /\ KeyMagicValid /\ ~keyIn.overflow_checks =>
        /\ keyOut.status # "panic"
        /\ keyOut.status = "ok" => KeyLayoutIs(KeyDemoTest)

\* v0 or v1 is below bif_offset where the test subtracts bif_offset from it.
KeyTestUnderflows ==
    \/ KeyV0 < KeyBifOffset
    \/ /\ keyIn.bif_count < KeyHugeCount
       /\ KeyV0 - KeyBifOffset = keyIn.bif_count * 8 /\ KeyV1 < KeyBifOffset

\* C15 for the files on which no subtraction of the test underflows, no
\* product overflows and no entry has a string_length of 0.
KeyLayoutWithoutUnderflow ==
    keyOut # NotRun /\ KeyOnDisk /\ KeyMagicValid /\ ~KeyTestUnderflows
    /\ keyIn.bif_count < KeyHugeCount
    /\ (\A i \in 1..Len(keyIn.bifs) : keyIn.bifs[i].string_length > 0) =>
        /\ keyOut.status # "panic"
        /\ keyOut.status = "ok" => KeyLayoutIs(KeyDemoTest)

\* Two entries were read in the demo layout, the second at bif_offset + 8.
KeyDemoRead ==
    /\ keyOut # NotRun /\ keyOut.status = "ok" /\ keyOut.is_demo
    /\ Len(keyOut.bif_entries) = 2
    /\ keyOut.bif_entries[2].at = KeyBifOffset + 8

\* A 12-byte file whose first file_size is bif_offset + bif_count * 8 was
\* read in the 12-byte layout.
KeyFullRead ==
    /\ keyOut # NotRun /\ keyOut.status = "ok" /\ ~keyOut.is_demo
    /\ KeyV0 - KeyBifOffset = keyIn.bif_count * 8
    /\ Len(keyOut.bif_entries) = 1

\* The folders, in the order of the search, in which `name` is a file of
\* the snapshot.
KeyHits(name) ==
    {i \in 1..Len(FILE_FOLDERS) :
        /\ FILE_FOLDERS[i] \o name \in DOMAIN fsPaths.paths
        /\ \E e \in fsPaths.disk :
               /\ e.is_file
               /\ AbsolutePath(fsPaths.root, e.rel)
                      = fsPaths.paths[FILE_FOLDERS[i] \o name]}

\* The snapshot's path of `name` in the first folder that has it.
KeyFirstHit(name) ==
    fsPaths.paths[FILE_FOLDERS[CHOOSE i \in KeyHits(name) :
                                   \A j \in KeyHits(name) : i <= j] \o name]

\* `name`, which ends in ".bif", with ".cbf" in its place.
KeyCbfName(name) == SubSeq(name, 1, Len(name) - 4) \o DOT_CBF

\* The location the search order gives the BIF file `name`.
KeyLocation(name) ==
    IF KeyHits(name) # {} THEN Some(KeyFirstHit(name))
    ELSE IF KeyHits(KeyCbfName(name)) # {} THEN Some(KeyFirstHit(KeyCbfName(name)))
    ELSE None

\* The file holds the entries it declares, each with the length of its
\* name.
KeyWellFormed ==
    /\ KeyOnDisk /\ KeyMagicValid
    /\ keyIn.bif_count = Len(keyIn.bifs)
    /\ \A i \in 1..Len(keyIn.bifs) :
          keyIn.bifs[i].string_length = Len(keyIn.bifs[i].stored) + 1
    /\ keyIn.resource_count <= Len(keyIn.resources)

(* C16: the location of a BIF entry is the snapshot's path of its
   normalized name in the first of the folders "", data/, cache/, cd1/ ...
   cd7/ where it is an existing file; the name with .cbf for .bif is looked
   for, in the same order, only when no folder has the name itself; when
   neither is found the location is absent and the import succeeds all the
   same. *)
C16_SearchOrder ==
    keyOut # NotRun /\ KeyWellFormed
    /\ ~(keyIn.overflow_checks /\ KeyTestUnderflows) =>
        /\ keyOut.status = "ok"
        /\ \A i \in 1..Len(keyIn.bifs) :
               /\ keyOut.bif_entries[i].file_name = keyIn.bifs[i].norm
               /\ keyOut.bif_entries[i].file = KeyLocation(keyIn.bifs[i].norm)

\* "a.bif" is a directory, "cache/A.CBF" and "cd7/a.cbf" are files: the
\* entry "A.bif" was located at "cache/A.CBF".
C16_Witness ==
    /\ keyOut # NotRun /\ KeyWellFormed /\ keyOut.status = "ok"
    /\ \E i \in 1..Len(keyOut.bif_entries) :
           /\ keyIn.bifs[i].stored = <<65, 46, 98, 105, 102>>
           /\ keyOut.bif_entries[i].file
                  = Some(AbsolutePath(KeyRoot, FILE_FOLDERS[3] \o <<65, 46, 67, 66, 70>>))

\* "a.cbf" is in the root and "cd1/a.bif" in a folder: the .bif was taken.
KeyBifBeforeCbf ==
    /\ keyOut # NotRun /\ keyOut.status = "ok"
    /\ \E i \in 1..Len(keyOut.bif_entries) :
           keyOut.bif_entries[i].file
               = Some(AbsolutePath(KeyRoot, FILE_FOLDERS[4] \o A_BIF))

\* No folder has the file: the location is absent, the import succeeded.
KeyNotLocated ==
    /\ keyOut # NotRun /\ keyOut.status = "ok"
    /\ \E i \in 1..Len(keyOut.bif_entries) : keyOut.bif_entries[i].file = None

---------------------------------------------------------------------------
(* BAM v2 frames: BamV2::frame_to_image of resource/bam/bam_v2.rs.  An
   image buffer is a sequence of bytes, four for each pixel, row by row.
   The coordinates and sizes of SpecImg are small, so the u32 arithmetic of
   the indices is exact. *)

\* The decimal digits of n, at least `width` of them ('0' is 48).
RECURSIVE zero_padded(_, _)
zero_padded(n, width) ==
    IF n < 10 /\ width <= 1 THEN <<48 + n>>
    ELSE zero_padded(n \div 10, width - 1) \o <<48 + (n % 10)>>

\* pvrz_name with the page number as it is, without padding: "MOS{}.PVRZ".
pvrz_name_unpadded(block) ==
    <<77, 79, 83>> \o zero_padded(block.pvrz_page, 1) \o <<46, 80, 86, 82, 90>>

\* BamV2DataBlock::pvrz_name: format!("MOS{:04}.PVRZ", pvrz_page)
pvrz_name(block) ==
    <<77, 79, 83>> \o zero_padded(block.pvrz_page, 4) \o <<46, 80, 86, 82, 90>>

\* fs.search_path_opt(&CaseInsensitivePath::new(name)): the file of the
\* snapshot with that name, whatever its case; `files` maps the lower-cased
\* names to the files.
search_path_opt(files, name) ==
    IF to_lowercase(name) \in DOMAIN files
    THEN Some(files[to_lowercase(name)]) ELSE None

\* PvrzImporter::import and PvrzImporter::to_image on a file: the header
\* and the RGBA image, or the error of a file that is no PVRZ texture.
PvrzImporter_import(file) ==
    IF file.decodable
    THEN [status |-> "ok", width |-> file.width, height |-> file.height,
          raw |-> file.raw]
    ELSE Failed("UnexpectedEof", <<>>)

\* Mutant of ImageBuffer::new: three bytes for a pixel.
ImageBuffer_new_rgb(width, height) == Repeat(0, 3 * width * height)

\* image::ImageBuffer::new(width, height): a zeroed buffer.
ImageBuffer_new(width, height) == Repeat(0, 4 * width * height)

\* target[target_start..target_end].copy_from_slice(&source[source_start..source_end])
\* either range outside its buffer panics.
copy_from_slice(target, target_start, target_end, source, source_start, source_end) ==
    IF target_start > target_end \/ target_end > Len(target)
       \/ source_start > source_end \/ source_end > Len(source)
    THEN Panicked("range out of bounds")
    ELSE [status |-> "ok",
          buf |-> [i \in 1..Len(target) |->
                      IF i > target_start /\ i <= target_end
                      THEN source[source_start + (i - target_start)]
                      ELSE target[i]]]

\* `for row in 0..block.height { ... }` of frame_to_image, from `row` on.
RECURSIVE copy_rows(_, _, _, _, _)
copy_rows(target, frame, block, source, row) ==
    IF row = block.height THEN [status |-> "ok", buf |-> target]
    ELSE LET Next_row(copied) ==
                 IF copied.status # "ok" THEN copied
                 ELSE copy_rows(copied.buf, frame, block, source, row + 1)
             Copy(source_start, target_start) ==
                 Next_row(copy_from_slice(
                     target, target_start, target_start + block.width * 4,
                     source.raw, source_start, source_start + block.width * 4))
         IN  Copy(((block.source_y_coordinate + row) * source.width
                       + block.source_x_coordinate) * 4,
                  ((block.target_y_coordinate + row) * frame.width
                       + block.target_x_coordinate) * 4)

\* `for block in data_blocks { ... }` of frame_to_image, from the i-th
\* block of the slice on.
RECURSIVE copy_blocks(_, _, _, _, _)
copy_blocks(target, frame, data_blocks, files, i) ==
    IF i > Len(data_blocks) THEN [status |-> "ok", buf |-> target]
    ELSE LET Next_block(copied) ==
                 IF copied.status # "ok" THEN copied
                 ELSE copy_blocks(copied.buf, frame, data_blocks, files, i + 1)
             Decoded(source) ==
                 IF source.status # "ok"
                 THEN Panicked("unwrap on an Err value")
                 ELSE Next_block(copy_rows(target, frame, data_blocks[i],
                                           source, 0))
             Found(pvrz_path) ==
                 IF pvrz_path = None
                 THEN Failed("PVRZ file {} not found.", pvrz_name(data_blocks[i]))
                 ELSE Decoded(PvrzImporter_import(pvrz_path[1]))
         IN  Found(search_path_opt(files, pvrz_name(data_blocks[i])))

\* BamV2::frame_to_image(&self, frame_index, fs)
frame_to_image(bam, frame_index, files) ==
    LET Image(frame, copied) ==
            IF copied.status # "ok" THEN copied
            ELSE [status |-> "ok", width |-> frame.width,
                  height |-> frame.height, buf |-> copied.buf]
        Blocks(frame) ==
            IF frame.data_blocks_start_index + frame.data_blocks_count
                   > Len(bam.data_blocks)
            THEN Panicked("range end index out of range for slice")
            ELSE Image(frame,
                     copy_blocks(ImageBuffer_new(frame.width, frame.height),
                         frame,
                         SubSeq(bam.data_blocks,
                                frame.data_blocks_start_index + 1,
                                frame.data_blocks_start_index
                                    + frame.data_blocks_count),
                         files, 1))
    IN  IF frame_index >= Len(bam.frames)
        THEN Failed("Frame {} not found.", frame_index)
        ELSE Blocks(bam.frames[frame_index + 1])

---------------------------------------------------------------------------
(* SpecImg: frame_to_image on BAM v2 records whose data blocks lie inside
   and outside the frame and their page, over a game directory with a
   decodable page, a file that is no texture, and a page that is missing. *)

\* The largest width and height of a frame, a page and a block.
ImgMaxSide == 2
\* The largest coordinate of a block in its page and in its frame.
ImgMaxAt == 1

\* The bytes of a decoded page of `width` x `height`, all different and
\* none 0.
PageRaw(width, height) == [i \in 1..4 * width * height |-> 100 + i]

\* The game directory: "mos0000.pvrz", a texture of ImgMaxSide x ImgMaxSide,
\* and "mos0001.pvrz", a file that is no texture; page 2 is missing.
ImgFiles ==
    LET name(n) == to_lowercase(pvrz_name([pvrz_page |-> n]))
    IN  [k \in {name(0), name(1)} |->
            IF k = name(0)
            THEN [decodable |-> TRUE, width |-> ImgMaxSide, height |-> ImgMaxSide,
                  raw |-> PageRaw(ImgMaxSide, ImgMaxSide)]
            ELSE [decodable |-> FALSE]]

BamV2Frame(width, height, start, count) ==
    [width |-> width, height |-> height, center_x |-> 0, center_y |-> 0,
     data_blocks_count |-> count, data_blocks_start_index |-> start]

BamV2DataBlock(page, sx, sy, width, height, tx, ty) ==
    [pvrz_page |-> page, width |-> width, height |-> height,
     source_x_coordinate |-> sx, source_y_coordinate |-> sy,
     target_x_coordinate |-> tx, target_y_coordinate |-> ty]

\* Every block of the bounds, on one of the pages 0, 1, 2.
ImgBlocks ==
    {BamV2DataBlock(page, sx, sy, w, h, tx, ty) :
        page \in 0..2, sx \in 0..ImgMaxAt, sy \in 0..ImgMaxAt,
        w \in 0..ImgMaxSide, h \in 0..ImgMaxSide,
        tx \in 0..ImgMaxAt, ty \in 0..ImgMaxAt}

\* Two blocks of one pixel each, the corners of page 0 to the corners of
\* the frame.
ImgCorners ==
    <<BamV2DataBlock(0, 0, 0, 1, 1, 0, 0),
      BamV2DataBlock(0, ImgMaxSide - 1, ImgMaxSide - 1, 1, 1,
                     ImgMaxSide - 1, ImgMaxSide - 1)>>

\* Records of one frame with one block, every frame size and block; and
\* records of one frame over a table of two blocks, with every range of
\* blocks and a frame index inside and outside the frame table.
ImgInputs ==
    {[bam |-> [frames |-> <<BamV2Frame(fw, fh, 0, 1)>>, data_blocks |-> <<b>>],
      frame_index |-> 0] :
        fw \in 0..ImgMaxSide, fh \in 0..ImgMaxSide, b \in ImgBlocks}
    \cup {[bam |-> [frames |-> <<BamV2Frame(ImgMaxSide, ImgMaxSide, start, count)>>,
                    data_blocks |-> ImgCorners],
           frame_index |-> frame_index] :
            start \in 0..2, count \in 0..3, frame_index \in 0..1}

ImgInit ==
    /\ imgIn \in ImgInputs
    /\ imgOut = NotRun
    /\ rdData = <<>> /\ rdPos = 0 /\ rdRes = Idle
    /\ blocks = <<>> /\ nextBlock = 0 /\ buffer = Idle
    /\ offset = 0 /\ delivered = <<>> /\ lastRead = Idle
    /\ bamIn = Idle /\ bamOut = Idle /\ bifIn = Idle /\ bifOut = Idle
    /\ keyIn = Idle /\ keyOut = Idle /\ fsPaths = Idle /\ fsOut = Idle
    /\ rowIn = Idle /\ rowOut = Idle
    /\ tyIn = Idle /\ tyOut = Idle

\* bam.frame_to_image(frame_index, &fs)
FrameToImage ==
    /\ imgOut = NotRun
    /\ imgOut' = frame_to_image(imgIn.bam, imgIn.frame_index, ImgFiles)
    /\ UNCHANGED <<imgIn, rdVars, bifcVars, bamVars, bifVars, keyVars, fsVars,
                   rowVars, tyVars>>

ImgNext == FrameToImage

SpecImg ==
    /\ ImgInit
    /\ [][ImgNext]_vars

\* The frame asked for, if the record has it, and its blocks, if the table
\* has them all.
ImgFrame == imgIn.bam.frames[imgIn.frame_index + 1]
ImgRangeInTable ==
    ImgFrame.data_blocks_start_index + ImgFrame.data_blocks_count
        <= Len(imgIn.bam.data_blocks)
ImgFrameBlocks ==
    SubSeq(imgIn.bam.data_blocks, ImgFrame.data_blocks_start_index + 1,
           ImgFrame.data_blocks_start_index + ImgFrame.data_blocks_count)

\* The page of a block, and whether it can be decoded.
ImgPage(b) == ImgFiles[to_lowercase(pvrz_name(b))]
ImgPageDecodable(b) ==
    to_lowercase(pvrz_name(b)) \in DOMAIN ImgFiles /\ ImgPage(b).decodable
ImgPageUndecodable(b) ==
    to_lowercase(pvrz_name(b)) \in DOMAIN ImgFiles /\ ~ImgPage(b).decodable

\* The source rectangle of b is inside its page; the target rectangle is
\* inside the frame.
ImgSourceInPage(b) ==
    /\ b.source_x_coordinate + b.width <= ImgPage(b).width
    /\ b.source_y_coordinate + b.height <= ImgPage(b).height
ImgTargetInFrame(b) ==
    /\ b.target_x_coordinate + b.width <= ImgFrame.width
    /\ b.target_y_coordinate + b.height <= ImgFrame.height

\* One of the cases of C18 holds of the call.
ImgOutOfRange ==
    /\ imgIn.frame_index < Len(imgIn.bam.frames)
    /\ \/ ~ImgRangeInTable
       \/ /\ ImgRangeInTable
          /\ \E i \in 1..Len(ImgFrameBlocks) :
                 \/ ImgPageUndecodable(ImgFrameBlocks[i])
                 \/ /\ ImgPageDecodable(ImgFrameBlocks[i])
                    /\ ~(ImgSourceInPage(ImgFrameBlocks[i])
                         /\ ImgTargetInFrame(ImgFrameBlocks[i]))

(* C18: when a data block of the frame lies outside its page or outside
   the frame, or the frame's range of blocks exceeds the table, or a page
   of the frame cannot be decoded, frame_to_image returns an error: it
   neither panics nor returns an image. *)
C18_ErrorsReturned ==
    imgOut # NotRun /\ ImgOutOfRange => imgOut.status = "err"

\* No call of C18's cases panics.
ImgNeverPanics ==
    imgOut # NotRun /\ ImgOutOfRange => imgOut.status # "panic"

\* No call of C18's cases returns an image.
ImgNeverAnImage ==
    imgOut # NotRun /\ ImgOutOfRange => imgOut.status # "ok"

(* C19: the buffer frame_to_image returns has exactly
   4 * frame.width * frame.height bytes, whatever the blocks of the frame
   are. *)
C19_BufferLength ==
    imgOut # NotRun /\ imgOut.status = "ok" =>
        /\ Len(imgOut.buf) = 4 * ImgFrame.width * ImgFrame.height
        /\ imgOut.width = ImgFrame.width /\ imgOut.height = ImgFrame.height

\* A frame of 2 x 2 was filled from a block of 2 x 1: 16 bytes, the first
\* eight written.
C19_Witness ==
    /\ imgOut # NotRun /\ imgOut.status = "ok"
    /\ ImgFrame.width = 2 /\ ImgFrame.height = 2
    /\ Len(imgOut.buf) = 16
    /\ \E i \in 1..Len(ImgFrameBlocks) :
           ImgFrameBlocks[i].width = 2 /\ ImgFrameBlocks[i].height = 1
    /\ imgOut.buf[1] # 0 /\ imgOut.buf[8] # 0 /\ imgOut.buf[9] = 0

---------------------------------------------------------------------------
(* 2DA tables: parse_headers, parse_data_row and the row loop of
   TwoDAImporter::import in resource/two_da.rs.  Lines are ASCII, so the
   byte offsets of a line are the indices of its characters. *)

\* parse_headers(input) from the i-th character on: the words and the
\* byte offset (from 0) at which each starts.
RECURSIVE parse_headers_from(_, _, _, _, _, _)
parse_headers_from(input, i, in_word, start, headers, columns) ==
    IF i > Len(input)
    THEN IF in_word
         THEN [headers |-> Append(headers, SubSeq(input, start + 1, Len(input))),
               columns |-> Append(columns, start)]
         ELSE [headers |-> headers, columns |-> columns]
    ELSE IF is_whitespace(input[i])
    THEN IF in_word
         THEN parse_headers_from(input, i + 1, FALSE, start,
                  Append(headers, SubSeq(input, start + 1, i - 1)),
                  Append(columns, start))
         ELSE parse_headers_from(input, i + 1, FALSE, start, headers, columns)
    ELSE IF ~in_word
         THEN parse_headers_from(input, i + 1, TRUE, i - 1, headers, columns)
         ELSE parse_headers_from(input, i + 1, TRUE, start, headers, columns)

\* parse_headers(input)
parse_headers(input) == parse_headers_from(input, 1, FALSE, 0, <<>>, <<>>)

\* `for (s, e) in chain!(columns, len).tuple_windows() { ... }` of
\* parse_data_row from the k-th window on; line[s..e] panics when e is past
\* the end of the line or before s.
RECURSIVE parse_row_values(_, _, _, _, _)
parse_row_values(line, windows, k, default, result) ==
    IF k >= Len(windows) THEN [status |-> "ok", values |-> result]
    ELSE IF windows[k] >= Len(line)
    THEN parse_row_values(line, windows, k + 1, default, Append(result, default))
    ELSE IF windows[k + 1] > Len(line) \/ windows[k] > windows[k + 1]
    THEN Panicked("byte index out of bounds")
    ELSE LET Pushed(word) ==
                 parse_row_values(line, windows, k + 1, default,
                     Append(result, IF word = <<>> THEN default ELSE word))
         IN  Pushed(trim(SubSeq(line, windows[k] + 1, windows[k + 1])))

\* parse_data_row(line, columns, default)
parse_data_row(line, columns, default) ==
    LET Row(values) ==
            IF values.status # "ok" THEN values
            ELSE [status |-> "ok",
                  key |-> trim(SubSeq(line, 1, Min(columns[1], Len(line)))),
                  values |-> values.values]
    IN  IF columns = <<>> THEN Panicked("index out of bounds")
        ELSE Row(parse_row_values(line, Append(columns, Len(line)), 1, default,
                                  <<>>))

---------------------------------------------------------------------------
(* SpecRow: data lines of every length parsed against the columns of every
   header line. *)

\* The longest header line and the longest data line.
MaxHeaderLen == 5
MaxLineLen == 6

\* The characters of the lines: ' ' and 'x'.  The default value is "d".
RowChars == {32, 120}
RowDefault == <<100>>

RowInputs ==
    {[header |-> header, line |-> line] :
        header \in SeqsOf(RowChars, 0, MaxHeaderLen),
        line \in SeqsOf(RowChars, 0, MaxLineLen)}

NoRow == [op |-> "none"]

RowInit ==
    /\ rowIn \in RowInputs
    /\ rowOut = NoRow
    /\ rdData = <<>> /\ rdPos = 0 /\ rdRes = Idle
    /\ blocks = <<>> /\ nextBlock = 0 /\ buffer = Idle
    /\ offset = 0 /\ delivered = <<>> /\ lastRead = Idle
    /\ bamIn = Idle /\ bamOut = Idle /\ bifIn = Idle /\ bifOut = Idle
    /\ keyIn = Idle /\ keyOut = Idle /\ fsPaths = Idle /\ fsOut = Idle
    /\ imgIn = Idle /\ imgOut = Idle
    /\ tyIn = Idle /\ tyOut = Idle

\* parse_data_row(line, &columns, default) with the columns of the header.
ParseDataRow ==
    /\ rowOut = NoRow
    /\ rowOut' = [op |-> "parse_data_row", line |-> rowIn.line,
                  out |-> parse_data_row(rowIn.line,
                                         parse_headers(rowIn.header).columns,
                                         RowDefault)]
    /\ UNCHANGED <<rowIn, rdVars, bifcVars, bamVars, bifVars, keyVars, fsVars,
                   imgVars, tyVars>>

\* A pass of the loop of TwoDAImporter::import on a line that was read:
\* parse_data_row(line.trim(), &columns, &default_value).
ImportRow ==
    /\ rowOut = NoRow
    /\ rowIn.line # <<>>
    /\ rowOut' = [op |-> "import", line |-> trim(rowIn.line),
                  out |-> parse_data_row(trim(rowIn.line),
                                         parse_headers(rowIn.header).columns,
                                         RowDefault)]
    /\ UNCHANGED <<rowIn, rdVars, bifcVars, bamVars, bifVars, keyVars, fsVars,
                   imgVars, tyVars>>

RowNext == ParseDataRow \/ ImportRow

SpecRow ==
    /\ RowInit
    /\ [][RowNext]_vars

\* The column starts of the header, and where column i ends in a line of
\* length n: at the next column start, the last one at the end of the line.
RowColumns == parse_headers(rowIn.header).columns
RowColumnEnd(i, n) == IF i < Len(RowColumns) THEN RowColumns[i + 1] ELSE n

\* The characters of `line` at the byte offsets lo <= p < hi it has.
RowText(line, lo, hi) ==
    SubSeq(line, lo + 1, Min(hi, Len(line)))

\* The value of column i of `line`.
RowValue(line, i) ==
    IF RowColumns[i] >= Len(line)
       \/ trim(RowText(line, RowColumns[i], RowColumnEnd(i, Len(line)))) = <<>>
    THEN RowDefault
    ELSE trim(RowText(line, RowColumns[i], RowColumnEnd(i, Len(line))))

(* C20: for a data line of any length, also one that ends inside a column,
   and a non-empty list of column starts, parse_data_row returns the
   trimmed text before the first column as key and one value for each
   column: the trimmed text of the bytes [column[i], column[i+1]) of the
   line, the last column reaching to the end of the line, or the default
   value when that text is empty or the column starts at or past the end
   of the line. *)
C20_OneValuePerColumn ==
    rowOut # NoRow /\ RowColumns # <<>> =>
        /\ rowOut.out.status = "ok"
        /\ rowOut.out.key = trim(RowText(rowOut.line, 0, RowColumns[1]))
        /\ rowOut.out.values
               = [i \in 1..Len(RowColumns) |-> RowValue(rowOut.line, i)]

\* A line ends inside a column that is not the last.
RowEndsInsideColumn ==
    \E i \in 1..Len(RowColumns) - 1 :
        RowColumns[i] < Len(rowOut.line) /\ Len(rowOut.line) < RowColumns[i + 1]

\* C20 for the lines that do not end inside a column before the last.
RowValuesOfLongLines ==
    rowOut # NoRow /\ RowColumns # <<>> /\ ~RowEndsInsideColumn =>
        /\ rowOut.out.status = "ok"
        /\ rowOut.out.key = trim(RowText(rowOut.line, 0, RowColumns[1]))
        /\ rowOut.out.values
               = [i \in 1..Len(RowColumns) |-> RowValue(rowOut.line, i)]

\* Every line that ends inside a column before the last aborts the call.
RowShortLinesPanic ==
    rowOut # NoRow /\ RowColumns # <<>> /\ RowEndsInsideColumn =>
        rowOut.out.status = "panic"

---------------------------------------------------------------------------
(* Type registries: ResourceType and BifDirectory of key.rs. *)

\* The match arms of ResourceType::to_u16: variant, code.
ResourceTypeValues ==
    {<<"Bmp", 1>>, <<"Mve", 2>>, <<"Wav", 4>>, <<"Wfx", 5>>, <<"Plt", 6>>,
     <<"Tga", 952>>, <<"Bam", 1000>>, <<"Wed", 1001>>, <<"Chu", 1002>>,
     <<"Tis", 1003>>, <<"Mos", 1004>>, <<"Itm", 1005>>, <<"Spl", 1006>>,
     <<"Bcs", 1007>>, <<"Ids", 1008>>, <<"Cre", 1009>>, <<"Are", 1010>>,
     <<"Dlg", 1011>>, <<"Two", 1012>>, <<"Gam", 1013>>, <<"Sto", 1014>>,
     <<"Wmp", 1015>>, <<"Eff", 1016>>, <<"Bs", 1017>>, <<"Chr", 1018>>,
     <<"Vvc", 1019>>, <<"Vef", 1020>>, <<"Pro", 1021>>, <<"Bio", 1022>>,
     <<"Wbm", 1023>>, <<"Fnt", 1024>>, <<"Gui", 1026>>, <<"Sql", 1027>>,
     <<"Pvrz", 1028>>, <<"Glsl", 1029>>, <<"Tot", 1030>>, <<"Toh", 1031>>,
     <<"Menu", 1032>>, <<"Lua", 1033>>, <<"Ttf", 1034>>, <<"Png", 1035>>,
     <<"Bah", 1100>>, <<"Ini", 2050>>, <<"Src", 2051>>, <<"Maze", 2052>>,
     <<"Mus", 4094>>, <<"Acm", 4095>>}

\* The match arms of ResourceType::get_extension: variant, extension.
ResourceTypeExtensions ==
    {<<"Bmp", "bmp">>, <<"Mve", "mve">>, <<"Wav", "wav">>, <<"Wfx", "wfx">>,
     <<"Plt", "plt">>, <<"Tga", "tga">>, <<"Bam", "bam">>, <<"Wed", "wed">>,
     <<"Chu", "chu">>, <<"Tis", "tis">>, <<"Mos", "mos">>, <<"Itm", "itm">>,
     <<"Spl", "spl">>, <<"Bcs", "bcs">>, <<"Ids", "ids">>, <<"Cre", "cre">>,
     <<"Are", "are">>, <<"Dlg", "dlg">>, <<"Two", "two">>, <<"Gam", "gam">>,
     <<"Sto", "sto">>, <<"Wmp", "wmp">>, <<"Eff", "eff">>, <<"Bs", "bs">>,
     <<"Chr", "chr">>, <<"Vvc", "vvc">>, <<"Vef", "vef">>, <<"Pro", "pro">>,
     <<"Bio", "bio">>, <<"Wbm", "wbm">>, <<"Fnt", "fnt">>, <<"Gui", "gui">>,
     <<"Sql", "sql">>, <<"Pvrz", "pvrz">>, <<"Glsl", "glsl">>,
     <<"Tot", "tot">>, <<"Toh", "toh">>, <<"Menu", "menu">>,
     <<"Lua", "lua">>, <<"Ttf", "ttf">>, <<"Png", "png">>, <<"Bah", "bah">>,
     <<"Ini", "ini">>, <<"Src", "src">>, <<"Maze", "maze">>,
     <<"Mus", "mus">>, <<"Acm", "acm">>}

\* Mutant of ResourceType::to_u16: an unknown code loses its bits above the
\* twelfth.
ResourceType_to_u16_12_bits(t) ==
    IF t.variant = "Unknown" THEN t.code % 4096
    ELSE (CHOOSE e \in ResourceTypeValues : e[1] = t.variant)[2]

\* ResourceType::to_u16(&self)
ResourceType_to_u16(t) ==
    IF t.variant = "Unknown" THEN t.code
    ELSE (CHOOSE e \in ResourceTypeValues : e[1] = t.variant)[2]

\* ResourceType::get_extension(&self)
get_extension(t) ==
    IF t.variant = "Unknown" THEN None
    ELSE Some((CHOOSE e \in ResourceTypeExtensions : e[1] = t.variant)[2])

\* The match arms of BifDirectory::to_u16, in the order of their values
\* from 0.
BifDirectoryValues ==
    <<"Root", "Cache", "Cd1", "Cd2", "Cd3", "Cd4", "Cd5", "Cd6", "Cd7">>

\* Mutant of BifDirectory::to_u16: an unknown value loses its high byte.
BifDirectory_to_u16_low_byte(dir) ==
    IF dir.variant = "Unknown" THEN dir.code % 256
    ELSE (CHOOSE i \in 1..Len(BifDirectoryValues) :
              BifDirectoryValues[i] = dir.variant) - 1

\* BifDirectory::to_u16(&self)
BifDirectory_to_u16(dir) ==
    IF dir.variant = "Unknown" THEN dir.code
    ELSE (CHOOSE i \in 1..Len(BifDirectoryValues) :
              BifDirectoryValues[i] = dir.variant) - 1

---------------------------------------------------------------------------
(* SpecTypes: every 16-bit code converted to a ResourceType or a
   BifDirectory and back. *)

\* u16::MAX
U16_MAX == 65535

NoConversion == [op |-> "none"]

TypesInit ==
    /\ tyIn \in 0..U16_MAX
    /\ tyOut = NoConversion
    /\ rdData = <<>> /\ rdPos = 0 /\ rdRes = Idle
    /\ blocks = <<>> /\ nextBlock = 0 /\ buffer = Idle
    /\ offset = 0 /\ delivered = <<>> /\ lastRead = Idle
    /\ bamIn = Idle /\ bamOut = Idle /\ bifIn = Idle /\ bifOut = Idle
    /\ keyIn = Idle /\ keyOut = Idle /\ fsPaths = Idle /\ fsOut = Idle
    /\ imgIn = Idle /\ imgOut = Idle /\ rowIn = Idle /\ rowOut = Idle

\* ResourceType::from(code), then to_u16() and get_extension() of it.
ConvertResourceType ==
    /\ tyOut = NoConversion
    /\ tyOut' = [op |-> "ResourceType",
                 value |-> ResourceType_from(tyIn),
                 code |-> ResourceType_to_u16(ResourceType_from(tyIn)),
                 extension |-> get_extension(ResourceType_from(tyIn))]
    /\ UNCHANGED <<tyIn, rdVars, bifcVars, bamVars, bifVars, keyVars, fsVars,
                   imgVars, rowVars>>

\* BifDirectory::from(code), then to_u16() of it.
ConvertBifDirectory ==
    /\ tyOut = NoConversion
    /\ tyOut' = [op |-> "BifDirectory",
                 value |-> BifDirectory_from(tyIn),
                 code |-> BifDirectory_to_u16(BifDirectory_from(tyIn))]
    /\ UNCHANGED <<tyIn, rdVars, bifcVars, bamVars, bifVars, keyVars, fsVars,
                   imgVars, rowVars>>

TypesNext == ConvertResourceType \/ ConvertBifDirectory

SpecTypes ==
    /\ TypesInit
    /\ [][TypesNext]_vars

\* The codes of the known type table.
KnownTypeCodes ==
    {1, 2, 4, 5, 6, 952, 1000, 1001, 1002, 1003, 1004, 1005, 1006, 1007,
     1008, 1009, 1010, 1011, 1012, 1013, 1014, 1015, 1016, 1017, 1018, 1019,
     1020, 1021, 1022, 1023, 1024, 1026, 1027, 1028, 1029, 1030, 1031, 1032,
     1033, 1034, 1035, 1100, 2050, 2051, 2052, 4094, 4095}

(* C21: for every 16-bit code c, ResourceType::from(c).to_u16() = c;
   from(c) is Unknown(c), with the code as it was, exactly when c is not in
   the known type table; for a code of the table from(c) is a named variant
   with an extension that is not empty, and no other code of the table has
   its variant or its extension. *)
C21_ResourceTypeRoundTrip ==
    tyOut.op = "ResourceType" =>
        /\ tyOut.code = tyIn
        /\ tyOut.value.variant = "Unknown" <=> tyIn \notin KnownTypeCodes
        /\ tyIn \notin KnownTypeCodes =>
               /\ tyOut.value = [variant |-> "Unknown", code |-> tyIn]
               /\ tyOut.extension = None
        /\ tyIn \in KnownTypeCodes =>
               /\ tyOut.extension # None
               /\ tyOut.extension[1] # ""
               /\ \A c \in KnownTypeCodes \ {tyIn} :
                      /\ ResourceType_from(c).variant # tyOut.value.variant
                      /\ get_extension(ResourceType_from(c)) # tyOut.extension

\* 0x3F4 became Two with the extension "two" and 0x3F4 again; so did the
\* unknown code 0x1001, above the twelve bits of the known codes.
C21_Witness ==
    /\ tyOut.op = "ResourceType"
    /\ \/ /\ tyIn = 1012 /\ tyOut.value.variant = "Two"
          /\ tyOut.extension = Some("two") /\ tyOut.code = 1012
       \/ /\ tyIn = 4097 /\ tyOut.value.variant = "Unknown"
          /\ tyOut.code = 4097

(* C22: for every 16-bit n, BifDirectory::from(n).to_u16() = n; 0..8 are
   Root, Cache, Cd1 ... Cd7 in that order and every other n is
   Unknown(n). *)
C22_BifDirectoryRoundTrip ==
    tyOut.op = "BifDirectory" =>
        /\ tyOut.code = tyIn
        /\ tyIn <= 8 =>
               tyOut.value
                   = [variant |-> <<"Root", "Cache", "Cd1", "Cd2", "Cd3", "Cd4",
                                    "Cd5", "Cd6", "Cd7">>[tyIn + 1]]
        /\ tyIn > 8 => tyOut.value = [variant |-> "Unknown", code |-> tyIn]

\* 8 became Cd7 and 8 again.
C22_Witness ==
    /\ tyOut.op = "BifDirectory" /\ tyIn = 8
    /\ tyOut.value = [variant |-> "Cd7"] /\ tyOut.code = 8

---------------------------------------------------------------------------
(* Little-endian decoding by the Reader (SpecReader). *)

\* The n bytes the last read decoded: those at the offset it was given, or
\* at the cursor it found.
RdDecoded ==
    SubSeq(rdData, (IF rdRes.at >= 0 THEN rdRes.at ELSE rdRes.pre) + 1,
           (IF rdRes.at >= 0 THEN rdRes.at ELSE rdRes.pre) + rdRes.n)

\* b0 + 256*b1 + 65536*b2 + 16777216*b3 of four bytes read as a 32-bit
\* pattern in two's complement (b3 counts from -128 when it is 0x80 or
\* more).
RdSigned(b) ==
    b[1] + 256 * b[2] + 65536 * b[3]
        + 16777216 * (IF b[4] >= 128 THEN b[4] - 256 ELSE b[4])

(* C23: read_u16, read_u32 and read_i32 (and their _at variants) decode
   little-endian: read_u16 returns b0 + 256*b1, read_u32 returns
   b0 + 256*b1 + 65536*b2 + 16777216*b3, and read_i32 the same 32 bits in
   two's complement, negative when b3 >= 0x80. *)
C23_LittleEndian ==
    rdRes.ok =>
        /\ rdRes.op \in {"read_u16", "read_u16_at"} =>
               rdRes.val = RdDecoded[1] + 256 * RdDecoded[2]
        /\ rdRes.op \in {"read_u32", "read_u32_at"} =>
               /\ rdRes.val.lo \in 0..65535 /\ rdRes.val.hi \in 0..65535
               /\ (IF rdRes.val.hi >= 32768 THEN rdRes.val.hi - 65536
                   ELSE rdRes.val.hi) * 65536 + rdRes.val.lo
                      = RdSigned(RdDecoded)
        /\ rdRes.op \in {"read_i32", "read_i32_at"} =>
               /\ rdRes.val = RdSigned(RdDecoded)
               /\ rdRes.val < 0 <=> RdDecoded[4] >= 128

\* 80 00 00 00 was read as 128 by read_u32, and 00 00 00 80 as -2^31 by
\* read_i32.
C23_Witness ==
    /\ rdRes.ok
    /\ \/ /\ rdRes.op = "read_u32" /\ RdDecoded = <<128, 0, 0, 0>>
          /\ rdRes.val = [lo |-> 128, hi |-> 0]
       \/ /\ rdRes.op = "read_i32" /\ RdDecoded = <<0, 0, 0, 128>>
          /\ rdRes.val = -2147483647 - 1

---------------------------------------------------------------------------
(* The pixel data of BAM v1 frames, read off the bytes of the file. *)

\* The four bytes of data_bits in the i-th frame record of the file `body`
\* (i from 0): bytes 8..11 of the 12-byte record.
FrameDataBits(body, i) ==
    SubSeq(body, BamFramesOffset + 12 * i + 9, BamFramesOffset + 12 * i + 12)

\* Bit 31 of data_bits is the top bit of its last byte.
FrameBit31(body, i) == FrameDataBits(body, i)[4] >= 128

\* data_bits AND 0x7FFFFFFF
FrameDataOffset(body, i) ==
    LET K(b) == b[1] + 256 * b[2] + 65536 * b[3] + 16777216 * (b[4] % 128)
    IN  K(FrameDataBits(body, i))

\* What the byte at t (from 1) of `data` contributes: a marker of a frame
\* that is RLE-encoded stands for n + 1 copies of itself, n being the byte
\* behind it; any other byte stands for itself.
IsRun(data, t, rle_encoded, rle_marker) == rle_encoded /\ data[t] = rle_marker

Contribution(data, t, rle_encoded, rle_marker) ==
    IF IsRun(data, t, rle_encoded, rle_marker)
    THEN Repeat(rle_marker, data[t + 1] + 1)
    ELSE <<data[t]>>

\* The contributions of the bytes of `data` from t on, until `size` pixels
\* are there; not ok when the data ends before that.
RECURSIVE Contributions(_, _, _, _, _, _)
Contributions(data, t, size, rle_encoded, rle_marker, pixels) ==
    IF Len(pixels) >= size THEN [ok |-> TRUE, pixels |-> pixels]
    ELSE IF t > Len(data) THEN [ok |-> FALSE, pixels |-> pixels]
    ELSE IF IsRun(data, t, rle_encoded, rle_marker)
    THEN IF t + 1 > Len(data) THEN [ok |-> FALSE, pixels |-> pixels]
         ELSE Contributions(data, t + 2, size, rle_encoded, rle_marker,
                  pixels \o Contribution(data, t, rle_encoded, rle_marker))
    ELSE Contributions(data, t + 1, size, rle_encoded, rle_marker,
             pixels \o Contribution(data, t, rle_encoded, rle_marker))

\* The pixels the first frame record of the imported file stands for.
FramePixels ==
    LET K(body) ==
            Contributions(SubSeq(body, FrameDataOffset(body, 0) + 1, Len(body)),
                          1, bamIn.frames[1].width * bamIn.frames[1].height,
                          ~FrameBit31(body, 0), bamIn.rle, <<>>)
    IN  K(BamBody(bamIn))

(* C24: a BAM v1 frame is RLE-decoded exactly when bit 31 of data_bits is
   clear: then each data byte equal to rle_marker is followed by a run byte
   n and contributes n + 1 copies of the marker, and every other byte
   contributes itself once; when bit 31 is set every data byte contributes
   exactly one pixel; the data is read from offset data_bits AND
   0x7FFFFFFF.  An import that does not panic in the palette, of a file
   whose lookup_offset is where the lookup table lies, succeeds exactly
   when the data holds enough bytes. *)
C24_RleWhenBit31Clear ==
    bamOut.v1 # NotRun /\ bamOut.v1.status # "panic" =>
        /\ bamIn.shift = 0 => (bamOut.v1.status = "ok" <=> FramePixels.ok)
        /\ bamOut.v1.status = "ok" =>
               bamOut.v1.frames[1].pixel_palette_indexes = FramePixels.pixels

\* An RLE-encoded frame was imported whose data holds a byte that is not the
\* marker and a marker with a run byte of at least 1.
C24_Witness ==
    /\ bamOut.v1 # NotRun /\ bamOut.v1.status = "ok"
    /\ ~FrameBit31(BamBody(bamIn), 0)
    /\ Len(bamIn.frames[1].data) = 3
    /\ bamIn.frames[1].data[1] # bamIn.rle
    /\ bamIn.frames[1].data[2] = bamIn.rle
    /\ bamIn.frames[1].data[3] >= 1
    /\ Len(bamOut.v1.frames[1].pixel_palette_indexes) > 3

\* A frame with bit 31 set was imported whose data holds the marker byte.
C24_WitnessRaw ==
    /\ bamOut.v1 # NotRun /\ bamOut.v1.status = "ok"
    /\ FrameBit31(BamBody(bamIn), 0)
    /\ \E t \in 1..Len(bamIn.frames[1].data) : bamIn.frames[1].data[t] = bamIn.rle
    /\ bamOut.v1.frames[1].pixel_palette_indexes
           = SubSeq(bamIn.frames[1].data, 1,
                    bamIn.frames[1].width * bamIn.frames[1].height)

---------------------------------------------------------------------------
(* The frame and cycle tables of BAM v1, read off the bytes of the file. *)

\* The u16 at offset `at` (from 0) of `body`.
U16At(body, at) == body[at + 1] + 256 * body[at + 2]

\* The header fields of the file: u16 frame count at 8, u8 cycle count at
\* 10, u32 frames_offset at 12 and lookup_offset at 20 (their low halves:
\* the files are shorter than 65536 bytes).
HeaderFrameCount(body) == U16At(body, 8)
HeaderCycleCount(body) == body[11]
HeaderFramesOffset(body) == U16At(body, 12)
HeaderLookupOffset(body) == U16At(body, 20)

\* Where cycle record k (from 0) lies: behind the last frame record.
CycleRecordAt(body, k) ==
    HeaderFramesOffset(body) + 12 * HeaderFrameCount(body) + 4 * k

\* The frame indices of cycle record k: indices_count u16 values at
\* lookup_offset + 2 * lookup_start.
CycleIndices(body, k) ==
    [n \in 1..U16At(body, CycleRecordAt(body, k)) |->
        U16At(body, HeaderLookupOffset(body)
                    + 2 * U16At(body, CycleRecordAt(body, k) + 2)
                    + 2 * (n - 1))]

TablesAsStored(body, r) ==
    /\ Len(r.frames) = HeaderFrameCount(body)
    /\ Len(r.cycles) = HeaderCycleCount(body)
    /\ r.frames_at = [i \in 1..HeaderFrameCount(body) |->
                         HeaderFramesOffset(body) + 12 * (i - 1)]
    /\ r.cycles_at = [k \in 1..HeaderCycleCount(body) |->
                         CycleRecordAt(body, k - 1)]
    /\ \A i \in 1..HeaderFrameCount(body) :
          /\ r.frames[i].width = U16At(body, r.frames_at[i])
          /\ r.frames[i].height = U16At(body, r.frames_at[i] + 2)
    /\ \A k \in 1..HeaderCycleCount(body) :
          r.cycles[k].frame_indices = CycleIndices(body, k - 1)

(* C25: in BamV1Parser::import the seek to a frame's pixel data and the seek
   to a cycle's lookup entries leave the table iteration unchanged: frame
   record i is read at frames_offset + 12 * i and cycle record k at
   frames_offset + 12 * frame_count + 4 * k, whatever the data offsets,
   lookup_offset and lookup_start are; the frame indices of cycle k are the
   indices_count u16 values at lookup_offset + 2 * lookup_start.  The files
   with two records in each table hold every byte the import needs, so
   their import succeeds. *)
C25_TableIterationUnchanged ==
    /\ bamOut.v1 # NotRun /\ bamOut.v1.status = "ok" =>
           TablesAsStored(BamBody(bamIn), bamOut.v1)
    /\ bamOut.v1 # NotRun /\ bamIn \in BamTableFamily =>
           bamOut.v1.status = "ok"

\* A file with two frame records and two cycle records was imported, whose
\* second cycle starts past the first lookup entry and has frame indices.
C25_Witness ==
    /\ bamOut.v1 # NotRun /\ bamOut.v1.status = "ok"
    /\ Len(bamOut.v1.frames) = 2 /\ Len(bamOut.v1.cycles) = 2
    /\ bamIn.cycles[1].count > 0
    /\ bamIn.cycles[2].start > 0 /\ bamIn.cycles[2].count > 0
    /\ bamOut.v1.frames_at[2] = BamFramesOffset + 12
    /\ bamOut.v1.cycles_at[2] = BamFramesOffset + 28

---------------------------------------------------------------------------
(* The palette region of BAM v1, read off the header of the file. *)

HeaderPaletteOffset(body) == U16At(body, 16)

\* lookup_offset < palette_offset: the subtraction would underflow.
PaletteUnderflows(body) == HeaderLookupOffset(body) < HeaderPaletteOffset(body)

\* Fewer than 4 bytes between palette_offset and lookup_offset: no entry.
PaletteEmpty(body) ==
    /\ HeaderLookupOffset(body) >= HeaderPaletteOffset(body)
    /\ HeaderLookupOffset(body) - HeaderPaletteOffset(body) < 4

\* min(256, (lookup_offset - palette_offset) / 4), where defined
PaletteEntries(body) ==
    Min(256, (HeaderLookupOffset(body) - HeaderPaletteOffset(body)) \div 4)

PaletteHandled(body, r) ==
    /\ PaletteUnderflows(body) \/ PaletteEmpty(body) => r.status \in {"ok", "err"}
    /\ r.status = "ok" => Len(r.palette) = PaletteEntries(body)

(* C28: BamV1Parser::import never aborts on a malformed palette region: for
   every header with lookup_offset < palette_offset or with fewer than 4
   bytes between palette_offset and lookup_offset the import returns an
   error value or a record, and the palette of a returned record has
   exactly min(256, (lookup_offset - palette_offset) / 4) entries. *)
C28_MalformedPaletteNeverAborts ==
    bamOut.v1 # NotRun => PaletteHandled(BamBody(bamIn), bamOut.v1)

\* What the code does on these headers: every import of a header without a
\* palette entry panics, and so does, in a build with overflow checks, every
\* import of a header with lookup_offset < palette_offset; without the
\* checks that import reads 256 entries and ends in an error here, the
\* files being shorter.
PaletteEmptyPanics ==
    bamOut.v1 # NotRun /\ PaletteEmpty(BamBody(bamIn)) =>
        bamOut.v1 = Panicked("index out of bounds")

PaletteUnderflowPanics ==
    bamOut.v1 # NotRun /\ PaletteUnderflows(BamBody(bamIn)) =>
        IF bamIn.overflow_checks
        THEN bamOut.v1 = Panicked("attempt to subtract with overflow")
        ELSE bamOut.v1.status = "err"

\* The palette of every returned record has the length of the claim.
PaletteLengthOfRecords ==
    bamOut.v1 # NotRun /\ bamOut.v1.status = "ok" =>
        /\ ~PaletteUnderflows(BamBody(bamIn))
        /\ Len(bamOut.v1.palette) = PaletteEntries(BamBody(bamIn))

---------------------------------------------------------------------------
(* BamV1Frame::to_image with the palette of the record the frame came in. *)

\* palette[i] of a slice: a panic outside it.
palette_index(palette, i) ==
    IF i < Len(palette) THEN [status |-> "ok", value |-> palette[i + 1]]
    ELSE Panicked("index out of bounds")

\* frame.to_image(palette): ImageBuffer::from_fn(width, height, f) calls f
\* for every (x, y) of the image; f reads pixel_palette_indexes[y * width + x]
\* and the palette entry of that index.
to_image(frame, palette) ==
    LET Pixel(idx) ==
            IF idx >= Len(frame.pixel_palette_indexes)
            THEN Panicked("index out of bounds")
            ELSE palette_index(palette, frame.pixel_palette_indexes[idx + 1])
        pixels == [idx \in 0..(frame.width * frame.height - 1) |-> Pixel(idx)]
    IN  IF \E idx \in DOMAIN pixels : pixels[idx].status = "panic"
        THEN Panicked("index out of bounds")
        ELSE [status |-> "ok", width |-> frame.width, height |-> frame.height,
              pixels |-> [n \in 1..(frame.width * frame.height) |->
                             <<pixels[n - 1].value.r, pixels[n - 1].value.g,
                               pixels[n - 1].value.b, pixels[n - 1].value.alpha>>]]

IndicesInPalette(r) ==
    \A i \in 1..Len(r.frames) :
        /\ \A n \in 1..Len(r.frames[i].pixel_palette_indexes) :
              r.frames[i].pixel_palette_indexes[n] < Len(r.palette)
        /\ to_image(r.frames[i], r.palette).status = "ok"

(* C29: for every record returned by BamV1Parser::import, every palette
   index stored in every frame's bitmap is smaller than the length of the
   record's palette, so that BamV1Frame::to_image with the record's own
   palette never reads outside the palette. *)
C29_IndicesInsidePalette ==
    bamOut.v1 # NotRun /\ bamOut.v1.status = "ok" => IndicesInPalette(bamOut.v1)

\* What the code does: to_image of a frame of a returned record succeeds
\* exactly when each of its first width * height indices is inside the
\* palette (every frame of a record has at least that many indices).
ToImagePanicsOutsidePalette ==
    bamOut.v1 # NotRun /\ bamOut.v1.status = "ok" =>
        \A i \in 1..Len(bamOut.v1.frames) :
            to_image(bamOut.v1.frames[i], bamOut.v1.palette).status = "ok"
            <=> \A n \in 1..(bamOut.v1.frames[i].width * bamOut.v1.frames[i].height) :
                    bamOut.v1.frames[i].pixel_palette_indexes[n]
                        < Len(bamOut.v1.palette)

---------------------------------------------------------------------------
(* The image of a BAM v2 frame, pixel by pixel. *)

\* The name of page n in lower case: "mos", four decimal digits, ".pvrz".
MosName(n) ==
    <<109, 111, 115, 48 + ((n \div 1000) % 10), 48 + ((n \div 100) % 10),
      48 + ((n \div 10) % 10), 48 + (n % 10), 46, 112, 118, 114, 122>>

\* The four bytes of pixel (x, y) of an RGBA buffer of rows of `width`.
PixelAt(raw, width, x, y) ==
    SubSeq(raw, 4 * (y * width + x) + 1, 4 * (y * width + x) + 4)

\* Block b writes the frame pixel (x, y).
BlockCovers(b, x, y) ==
    /\ b.target_x_coordinate <= x /\ x < b.target_x_coordinate + b.width
    /\ b.target_y_coordinate <= y /\ y < b.target_y_coordinate + b.height

\* The blocks of the frame's range are in bounds, on decodable pages, and
\* no two of them write the same pixel.
ImgWellFormed ==
    /\ imgIn.frame_index < Len(imgIn.bam.frames)
    /\ ImgRangeInTable
    /\ \A i \in 1..Len(ImgFrameBlocks) :
          /\ ImgPageDecodable(ImgFrameBlocks[i])
          /\ ImgSourceInPage(ImgFrameBlocks[i])
          /\ ImgTargetInFrame(ImgFrameBlocks[i])
    /\ \A i, k \in 1..Len(ImgFrameBlocks) :
          i # k => \A x \in 0..ImgMaxSide, y \in 0..ImgMaxSide :
                       ~(BlockCovers(ImgFrameBlocks[i], x, y)
                         /\ BlockCovers(ImgFrameBlocks[k], x, y))

\* Every block of the range shows in the image, from the page of its name;
\* every other pixel is as ImageBuffer::new left it.
ImgComposited ==
    /\ imgOut.status = "ok"
    /\ \A n \in 1..Len(ImgFrameBlocks) :
          LET b == ImgFrameBlocks[n]
          IN  /\ to_lowercase(pvrz_name(b)) = MosName(b.pvrz_page)
              /\ \A i \in 0..(b.width - 1), j \in 0..(b.height - 1) :
                    PixelAt(imgOut.buf, ImgFrame.width,
                            b.target_x_coordinate + i, b.target_y_coordinate + j)
                    = PixelAt(ImgFiles[MosName(b.pvrz_page)].raw,
                              ImgFiles[MosName(b.pvrz_page)].width,
                              b.source_x_coordinate + i, b.source_y_coordinate + j)
    /\ \A x \in 0..(ImgFrame.width - 1), y \in 0..(ImgFrame.height - 1) :
          (\A n \in 1..Len(ImgFrameBlocks) : ~BlockCovers(ImgFrameBlocks[n], x, y))
          => PixelAt(imgOut.buf, ImgFrame.width, x, y) = <<0, 0, 0, 0>>

(* C26: for a BAM v2 frame whose data blocks are all in bounds and have
   pairwise disjoint target rectangles, the image frame_to_image returns
   has, for every block of the range [data_block_start, data_block_start +
   data_block_count) and every (i, j) inside the block, the frame pixel
   (target_x + i, target_y + j) equal to the pixel (source_x + i,
   source_y + j) of the decoded page MOS<pvrz_page, 4 digits>.PVRZ, and no
   block outside that range contributes a pixel. *)
C26_BlocksComposited ==
    imgOut # NotRun /\ ImgWellFormed => ImgComposited

\* A frame of 2 x 2 was composed of the second block of a table of two:
\* the corner of the first block stayed empty.
C26_Witness ==
    /\ imgOut # NotRun /\ imgOut.status = "ok" /\ ImgWellFormed
    /\ Len(imgIn.bam.data_blocks) = 2
    /\ ImgFrame.data_blocks_start_index = 1 /\ ImgFrame.data_blocks_count = 1
    /\ PixelAt(imgOut.buf, 2, 0, 0) = <<0, 0, 0, 0>>
    /\ PixelAt(imgOut.buf, 2, 1, 1) = PixelAt(ImgFiles[MosName(0)].raw, 2, 1, 1)

\* A frame was composed of a block of 1 x 2 taken from column 1 of its page
\* and put into column 0 of the frame.
C26_WitnessColumn ==
    /\ imgOut # NotRun /\ imgOut.status = "ok" /\ ImgWellFormed
    /\ \E n \in 1..Len(ImgFrameBlocks) :
          /\ ImgFrameBlocks[n].width = 1 /\ ImgFrameBlocks[n].height = 2
          /\ ImgFrameBlocks[n].source_x_coordinate = 1
          /\ ImgFrameBlocks[n].target_x_coordinate = 0
          /\ ImgFrame.width = 2

\* Both blocks of the table were composed into one frame.
C26_WitnessBoth ==
    /\ imgOut # NotRun /\ imgOut.status = "ok" /\ ImgWellFormed
    /\ Len(ImgFrameBlocks) = 2
    /\ PixelAt(imgOut.buf, 2, 0, 0) # <<0, 0, 0, 0>>
    /\ PixelAt(imgOut.buf, 2, 1, 1) # <<0, 0, 0, 0>>
    /\ PixelAt(imgOut.buf, 2, 1, 0) = <<0, 0, 0, 0>>

---------------------------------------------------------------------------
(* BifcCompressedReader::fill_buffer on the bytes of the file: the frame of
   a block, the bounded zlib decoder over its payload, and the cursor of
   the underlying reader afterwards. *)

\* reader.take(n), n a u32: the bytes the bounded reader reaches from p on
\* are those before p + n (the files are shorter than 65536 bytes).
take(d, p, n) ==
    IF n.hi > 0 THEN d ELSE SubSeq(d, 1, Min(Len(d), p + n.lo))

\* fill_buffer with the cursor of the underlying reader at p and the
\* buffer b: two u32 reads, then the decoder over take(compressed_size)
\* is read to its end and what it delivers is appended.  The decoder is a
\* flate2::bufread::ZlibDecoder: it consumes of its source what the zlib
\* stream takes, and `take` is dropped where the decoder stopped.
BifcCompressedReader_fill_buffer(d, p, b) ==
    LET Inflated(z) ==
            [ok |-> z.ok, buffer |-> vd_extend(b, z.out), pos |-> z.pos]
        Sized(compressed_size) ==
            IF ~compressed_size.ok
            THEN [ok |-> FALSE, buffer |-> b, pos |-> compressed_size.pos]
            ELSE Inflated(inflate(take(d, compressed_size.pos, compressed_size.val),
                                  compressed_size.pos))
        Framed(uncompressed_size) ==
            IF ~uncompressed_size.ok
            THEN [ok |-> FALSE, buffer |-> b, pos |-> uncompressed_size.pos]
            ELSE Sized(read_u32(d, uncompressed_size.pos))
    IN  Framed(read_u32(d, p))

---------------------------------------------------------------------------
(* SpecFill: refills of the block adapter over files of framed blocks, each
   a zlib stream of its bytes followed by bytes the stream does not use,
   which its compressed_size counts. *)

\* Bound: the number of blocks of a file.
FillMaxBlocks == 2
\* Bound: the inflated bytes of a block.
FillMaxLen == 1
\* Bound: the bytes of a block's payload behind the end of its zlib stream.
FillMaxPad == 1

FillBlocks ==
    {[bytes |-> bytes, pad |-> pad] :
        bytes \in SeqsOf({7, 8}, 0, FillMaxLen), pad \in 0..FillMaxPad}

\* The frame of a block: uncompressed_size, compressed_size, payload.
FillFrame(block) ==
    to_le_bytes(Len(block.bytes), 4)
    \o to_le_bytes(Len(zlib_stored(block.bytes, ZChunk)) + block.pad, 4)
    \o zlib_stored(block.bytes, ZChunk) \o Repeat(0, block.pad)

FillFile(blks) == Flatten([i \in 1..Len(blks) |-> FillFrame(blks[i])])

FillNone == [ok |-> TRUE, at |-> 0, refills |-> 0]

FillInit ==
    /\ blocks \in SeqsOf(FillBlocks, 1, FillMaxBlocks)
    /\ rdData = FillFile(blocks) /\ rdPos = 0 /\ rdRes = Idle
    /\ nextBlock = 0 /\ buffer = vd_new
    /\ offset = 0 /\ delivered = <<>> /\ lastRead = FillNone
    /\ bamIn = Idle /\ bamOut = Idle
    /\ bifIn = Idle /\ bifOut = Idle
    /\ keyIn = Idle /\ keyOut = Idle /\ fsPaths = Idle /\ fsOut = Idle
    /\ imgIn = Idle /\ imgOut = Idle /\ rowIn = Idle /\ rowOut = Idle
    /\ tyIn = Idle /\ tyOut = Idle

\* self.fill_buffer()?: a refill; after a failed one the read that asked
\* for it has returned the error.
FillBuffer ==
    /\ lastRead.ok
    /\ LET r == BifcCompressedReader_fill_buffer(rdData, rdPos, buffer)
       IN  /\ rdPos' = r.pos
           /\ buffer' = r.buffer
           /\ nextBlock' = nextBlock + 1
           /\ lastRead' = [ok |-> r.ok, at |-> rdPos, refills |-> nextBlock + 1]
    /\ UNCHANGED <<rdData, rdRes, blocks, offset, delivered, bamVars, bifVars,
                   keyVars, fsVars, imgVars, rowVars, tyVars>>

FillNext == FillBuffer

SpecFill ==
    /\ FillInit
    /\ [][FillNext]_vars

\* Where the frame of block k (from 1) starts in the file.
FrameStart(blks, k) == Len(FillFile(SubSeq(blks, 1, k - 1)))

\* The compressed_size field of the frame at offset `at`.
FrameCompressedSize(d, at) == U16At(d, at + 4)

\* The inflated bytes of the first k blocks.
InflatedUpTo(blks, k) == Flatten([i \in 1..k |-> blks[i].bytes])

(* C27: each refill of the block adapter consumes exactly one block frame of
   the underlying reader: after fill_buffer returns, the cursor has advanced
   by exactly 8 + compressed_size and stands at the uncompressed_size field
   of the next block, so that the k-th refill decodes the k-th block of the
   file, also when the deflate stream of a block ends before
   compressed_size bytes have been consumed. *)
C27_RefillConsumesOneFrame ==
    /\ lastRead.refills > 0 /\ lastRead.ok =>
           /\ rdPos = lastRead.at + 8 + FrameCompressedSize(rdData, lastRead.at)
           /\ rdPos = FrameStart(blocks, lastRead.refills + 1)
           /\ buffer.items = InflatedUpTo(blocks, lastRead.refills)
    /\ lastRead.refills > 0 /\ lastRead.refills <= Len(blocks) => lastRead.ok

\* What the code does: a refill leaves the cursor behind the zlib stream;
\* the bytes of the payload behind it stay unread.
FillStopsAtStreamEnd ==
    lastRead.refills > 0 /\ lastRead.ok =>
        rdPos = lastRead.at + 8
                + Len(zlib_stored(blocks[lastRead.refills].bytes, ZChunk))

\* In files whose blocks are zlib streams of exactly compressed_size bytes
\* every refill consumes its frame.
FillUnpadded == \A i \in 1..Len(blocks) : blocks[i].pad = 0

FillOfExactPayloads == FillUnpadded => C27_RefillConsumesOneFrame

\* The refill of a block whose payload is longer than its stream leaves
\* the cursor inside the frame, and the refill after it fails or decodes
\* other bytes.
FillAfterPaddedBlock ==
    /\ lastRead.refills = 2 /\ blocks[1].pad > 0 /\ Len(blocks) = 2
    /\ ~lastRead.ok

---------------------------------------------------------------------------
(* The unsigned arithmetic of Key::import, against the integers. *)

\* An entry the import reads has string_length 0: string_length - 1 is
\* below zero.
KeyZeroLength ==
    \E i \in 1..Len(keyIn.bifs) :
        i <= keyIn.bif_count /\ keyIn.bifs[i].string_length = 0

\* bif_count * 8 does not fit a u32 (and so neither does bif_count * 12).
KeyProductOverflows == keyIn.bif_count >= KeyHugeCount

\* v0 - bif_offset is below zero, or v1 - bif_offset is where the test gets
\* to it.
KeyDifferenceUnderflows ==
    \/ KeyV0 < KeyBifOffset
    \/ /\ ~KeyProductOverflows
       /\ KeyV0 - KeyBifOffset = keyIn.bif_count * 8 /\ KeyV1 < KeyBifOffset

\* The outcome is well defined: no panic; a record only of a file without
\* a name of length -1, with the layout the test on the integers gives and
\* with the names the file stores.
KeyExact ==
    /\ keyOut.status # "panic"
    /\ keyOut.status = "ok" =>
          /\ ~KeyZeroLength
          /\ keyOut.is_demo = KeyDemoTest
          /\ \A i \in 1..Len(keyOut.bif_entries) :
                i <= Len(keyIn.bifs) /\ keyOut.is_demo = keyIn.demo =>
                    keyOut.bif_entries[i].file_name = keyIn.bifs[i].norm

(* C30: the unsigned arithmetic of Key::import never wraps or underflows for
   any 32-bit header and entry values: the demo test v0 - bif_offset and
   v1 - bif_offset with v0 or v1 smaller than bif_offset, the products
   bif_count * 8 and bif_count * 12, and the file-name length
   string_length - 1 with string_length = 0 each lead to a well-defined
   outcome (an error or the mathematically exact value), never to a wrapped
   value used as a length or in the layout decision. *)
C30_ArithmeticNeverWraps ==
    keyOut # NotRun /\ KeyOnDisk /\ KeyMagicValid => KeyExact

\* What the code does in a build with overflow checks: each of the three
\* cases panics.
KeyChecksPanic ==
    keyOut # NotRun /\ KeyOnDisk /\ KeyMagicValid /\ keyIn.overflow_checks
    /\ (KeyDifferenceUnderflows \/ KeyProductOverflows \/ KeyZeroLength) =>
        keyOut.status = "panic"

\* What the code does in a build without them: it goes on with the wrapped
\* value.  A string_length of 0 makes the name everything from
\* string_offset to the end of the file.
KeyWrappedLength ==
    keyOut # NotRun /\ KeyOnDisk /\ KeyMagicValid /\ ~keyIn.overflow_checks
    /\ KeyZeroLength /\ keyIn.resource_count <= Len(keyIn.resources) =>
        /\ keyOut.status = "ok"
        /\ Len(keyOut.bif_entries[1].file_name) > Len(keyIn.bifs[1].norm)

\* 2^29 entries declared, v0 = bif_offset: the wrapped product 0 equals
\* v0 - bif_offset and the import goes for the demo layout, which it cannot
\* read to its end.
KeyWrappedProduct ==
    keyOut # NotRun /\ KeyOnDisk /\ KeyMagicValid /\ ~keyIn.overflow_checks
    /\ KeyProductOverflows => keyOut = Eof

\* Without the three cases the arithmetic is exact in every build.
KeyExactOtherwise ==
    keyOut # NotRun /\ KeyOnDisk /\ KeyMagicValid
    /\ ~KeyProductOverflows /\ ~KeyDifferenceUnderflows /\ ~KeyZeroLength
    => KeyExact

====
